---- MODULE Spec2Model ----
(***************************************************************************)
(* Model of invoforge, core services and the application layer on them:    *)
(*   app/core/services/working_days_calculator.py  WorkingDaysCalculator   *)
(*   app/core/services/invoice_calculator.py       InvoiceCalculator       *)
(*   app/core/services/amount_formatter.py         AmountFormatter         *)
(*   app/core/entities/leave.py                    Leave                   *)
(*   app/application/use_cases/                    the use cases           *)
(*   app/infrastructure/persistence/               the SQLite repositories *)
(*   app/infrastructure/documents/                 generator and converter *)
(*                                                                         *)
(* A date is the tuple <<year, month, day>>.  Money (rate, amount) is an   *)
(* integer number of thousandths of the currency unit, so 100.50 is        *)
(* 100500 and 100.333 is 100333.  An optional value is <<>> (None) or      *)
(* <<x>>.                                                                  *)
(*                                                                         *)
(* The core services hold no state of their own.  The state of a call is   *)
(* the call being served (operation and arguments) and what it returned;   *)
(* the caller then takes the value (Return) and the service is idle        *)
(* again.  A returned record (WorkingDaysResult, Invoice) is kept as it    *)
(* is, a returned count as [weekdays |-> n], a returned pair of dates as   *)
(* [period |-> pair] and the string of to_words as [text |-> s], next to   *)
(* the two locals it was built from, whole and cents.                      *)
(*                                                                         *)
(* The application state is the leaves, invoices and settings tables with  *)
(* their AUTOINCREMENT marks, the files of the output directory, the       *)
(* converter with its cached strategies, the frames of the threads         *)
(* running create_invoice, and the global _container with the threads      *)
(* running get_container.  Each part has its own specification over the    *)
(* same variables: Spec (core services), LeaveSpec, InvoiceSpec,           *)
(* ConverterSpec, ThreadSpec, RouteSpec (the invoice routes),              *)
(* SettingsSpec, RecordsSpec (invoice records saved, deleted and           *)
(* numbered) and ContainerSpec.                                            *)
(***************************************************************************)
EXTENDS Integers, Sequences, FiniteSets, TLC

VARIABLES call, result, leaves_table, leave_seq, invoices_table, invoice_seq,
          files, pdf_converter, frames, settings_table, container,
          container_calls

vars == <<call, result, leaves_table, leave_seq, invoices_table, invoice_seq,
          files, pdf_converter, frames, settings_table, container,
          container_calls>>

\* What the core services never touch: the database, the output directory,
\* the PDF converter, the stack frames of the request threads and the
\* container singleton.
app_vars == <<leaves_table, leave_seq, invoices_table, invoice_seq,
              files, pdf_converter, frames, settings_table, container,
              container_calls>>

(***************************************************************************)
(* Bounds of the model.                                                    *)
(***************************************************************************)
\* Years 2024..LastYear are the years whose months and days are inputs.
LastYear == 2026
\* Longest list of leaves passed to calculate / calculate_for_range.
MaxLeaves == 2
\* Number of consecutive days, from WindowStart on, that leave dates and the
\* ends of custom ranges are drawn from.
WindowDays == 6
\* total_working_days ranges over 0..MaxDays (and the tests' 23).
MaxDays == 2
\* Longest leave_dates list of an InvoiceInput.
MaxInvoiceLeaves == 2
\* to_words is called with every amount of -MaxCents..MaxCents hundredths.
MaxCents == 120
\* The leaves table hands out ids 1..MaxLeaveId: that many rows are ever added.
MaxLeaveId == 3
\* The invoices table hands out ids 1..MaxInvoices.
MaxInvoices == 1
\* At most MaxRecords invoice records are ever saved where records are also
\* deleted and counted.
MaxRecords == 2
\* reset_container is called at most MaxResets times.
MaxResets == 1

(***************************************************************************)
(* The calendar, as the standard library computes it.                      *)
(***************************************************************************)
\* calendar.isleap
IsLeap(year) == year % 4 = 0 /\ (year % 100 # 0 \/ year % 400 = 0)

\* calendar.monthrange(year, month)[1]: the number of days of the month
DaysInMonth(year, month) ==
    IF month = 2 THEN (IF IsLeap(year) THEN 29 ELSE 28)
    ELSE IF month \in {4, 6, 9, 11} THEN 30
    ELSE 31

RECURSIVE DaysBeforeMonth(_, _)
\* days of the year before the first day of the month
DaysBeforeMonth(year, month) ==
    IF month = 1 THEN 0
    ELSE DaysBeforeMonth(year, month - 1) + DaysInMonth(year, month - 1)

\* date.toordinal: 0001-01-01 is day 1
ToOrdinal(d) ==
    LET y == d[1] - 1
    IN  y * 365 + (y \div 4) - (y \div 100) + (y \div 400)
          + DaysBeforeMonth(d[1], d[2]) + d[3]

\* date.weekday: Monday = 0 ... Sunday = 6
Weekday(d) == (ToOrdinal(d) + 6) % 7

\* date + timedelta(days=1)
NextDay(d) ==
    IF d[3] < DaysInMonth(d[1], d[2]) THEN <<d[1], d[2], d[3] + 1>>
    ELSE IF d[2] < 12 THEN <<d[1], d[2] + 1, 1>>
    ELSE <<d[1] + 1, 1, 1>>

\* date.__le__ and date.__lt__: dates compare as (year, month, day)
DateLT(a, b) ==
    \/ a[1] < b[1]
    \/ a[1] = b[1] /\ a[2] < b[2]
    \/ a[1] = b[1] /\ a[2] = b[2] /\ a[3] < b[3]

DateLE(a, b) == a = b \/ DateLT(a, b)

(***************************************************************************)
(* Leave (app/core/entities/leave.py)                                      *)
(***************************************************************************)
Leave(id, leave_date, reason) ==
    [id |-> id, leave_date |-> leave_date, reason |-> reason]

\* Leave.is_weekday
is_weekday(l) == Weekday(l.leave_date) < 5

(***************************************************************************)
(* WorkingDaysCalculator                                                   *)
(***************************************************************************)
RECURSIVE CountWeekdaysFrom(_, _, _, _)
\* the loop of calculate_weekdays: for day in range(day, num_days + 1)
CountWeekdaysFrom(year, month, day, num_days) ==
    IF day > num_days THEN 0
    ELSE (IF Weekday(<<year, month, day>>) < 5 THEN 1 ELSE 0)
           + CountWeekdaysFrom(year, month, day + 1, num_days)

calculate_weekdays_short(year, month) ==
    CountWeekdaysFrom(year, month, 1, DaysInMonth(year, month) - 1)

calculate_weekdays(year, month) ==
    CountWeekdaysFrom(year, month, 1, DaysInMonth(year, month))

weekday_leaves_all(leaves) == leaves

\* [l for l in leaves if l.is_weekday]
weekday_leaves(leaves) == SelectSeq(leaves, is_weekday)

\* two decimal digits, zero-padded
Pad2(n) == IF n < 10 THEN "0" \o ToString(n) ELSE ToString(n)

\* date.isoformat: YYYY-MM-DD, for years 1000..9999
isoformat(d) == ToString(d[1]) \o "-" \o Pad2(d[2]) \o "-" \o Pad2(d[3])

leave_dates_iso_counted(leaves) ==
    [i \in DOMAIN weekday_leaves(leaves) |->
        isoformat(weekday_leaves(leaves)[i].leave_date)]

\* [l.leave_date.isoformat() for l in leaves]: one entry per leave, in order
leave_dates_iso(leaves) == [i \in DOMAIN leaves |-> isoformat(leaves[i].leave_date)]

calculate(year, month, leaves) ==
    LET total_weekdays == calculate_weekdays(year, month)
        counted == weekday_leaves(leaves)
    IN  [total_weekdays |-> total_weekdays,
         leaves |-> Len(counted),
         working_days |-> total_weekdays - Len(counted),
         leave_dates |-> leave_dates_iso(leaves)]

get_service_period_common_year(reference_date) ==
    << <<reference_date[1], reference_date[2], 1>>,
       <<reference_date[1], reference_date[2],
         DaysInMonth(2025, reference_date[2])>> >>

get_service_period(reference_date) ==
    LET first_day == <<reference_date[1], reference_date[2], 1>>
        last_day_num == DaysInMonth(reference_date[1], reference_date[2])
        last_day == <<reference_date[1], reference_date[2], last_day_num>>
    IN  <<first_day, last_day>>

RECURSIVE CountRangeExclusive(_, _)
CountRangeExclusive(current, end_date) ==
    IF ~DateLT(current, end_date) THEN 0
    ELSE (IF Weekday(current) < 5 THEN 1 ELSE 0)
           + CountRangeExclusive(NextDay(current), end_date)

RECURSIVE calculate_weekdays_for_range(_, _)
\* while current <= end_date: count it if a weekday, then step one day
calculate_weekdays_for_range(current, end_date) ==
    IF ~DateLE(current, end_date) THEN 0
    ELSE (IF Weekday(current) < 5 THEN 1 ELSE 0)
           + calculate_weekdays_for_range(NextDay(current), end_date)

range_leaves_open_end(start_date, end_date, leaves) ==
    SelectSeq(leaves, LAMBDA l : is_weekday(l) /\ DateLE(start_date, l.leave_date)
                                   /\ DateLT(l.leave_date, end_date))

\* [l for l in leaves if l.is_weekday and start_date <= l.leave_date <= end_date]
range_leaves(start_date, end_date, leaves) ==
    SelectSeq(leaves, LAMBDA l : is_weekday(l) /\ DateLE(start_date, l.leave_date)
                                   /\ DateLE(l.leave_date, end_date))

calculate_for_range(start_date, end_date, leaves) ==
    LET total_weekdays == calculate_weekdays_for_range(start_date, end_date)
        counted == range_leaves(start_date, end_date, leaves)
    IN  [total_weekdays |-> total_weekdays,
         leaves |-> Len(counted),
         working_days |-> total_weekdays - Len(counted),
         leave_dates |-> leave_dates_iso(leaves)]

(***************************************************************************)
(* Numbers, as Python computes them                                        *)
(***************************************************************************)
\* the magnitude of a number
Abs(n) == IF n < 0 THEN -n ELSE n

\* round() to the nearest multiple of unit, a tie going to the even multiple;
\* the value returned is the multiple's index.  A float that prints as a
\* decimal tie is rarely one in binary: there the float falls to the side its
\* binary value lies on, which is one of the two neighbours of the tie.
RoundHalfEven(n, unit) ==
    LET q == n \div unit
        r == n % unit
    IN  IF 2 * r < unit THEN q
        ELSE IF 2 * r > unit THEN q + 1
        ELSE IF q % 2 = 0 THEN q ELSE q + 1

\* int(amount): the fraction is cut off, towards zero
IntPart(amount) ==
    IF amount >= 0 THEN amount \div 1000 ELSE -((-amount) \div 1000)

(***************************************************************************)
(* AmountFormatter                                                         *)
(***************************************************************************)
CURRENCY_NAMES ==
    [EUR |-> "Euros", USD |-> "Dollars", GBP |-> "Pounds", INR |-> "Rupees"]

\* str.upper, on the currency codes the model passes
Upper(currency) ==
    CASE currency = "eur" -> "EUR"
      [] currency = "usd" -> "USD"
      [] OTHER -> currency

\* CURRENCY_NAMES.get(currency.upper(), currency)
currency_name(currency) ==
    IF Upper(currency) \in DOMAIN CURRENCY_NAMES
    THEN CURRENCY_NAMES[Upper(currency)]
    ELSE currency

OnesWords ==
    <<"One", "Two", "Three", "Four", "Five", "Six", "Seven", "Eight", "Nine",
      "Ten", "Eleven", "Twelve", "Thirteen", "Fourteen", "Fifteen", "Sixteen",
      "Seventeen", "Eighteen", "Nineteen">>

TensWords ==
    <<"Ten", "Twenty", "Thirty", "Forty", "Fifty", "Sixty", "Seventy", "Eighty",
      "Ninety">>

\* 1..99
Below100(n) ==
    IF n < 20 THEN OnesWords[n]
    ELSE IF n % 10 = 0 THEN TensWords[n \div 10]
    ELSE TensWords[n \div 10] \o "-" \o OnesWords[n % 10]

\* 1..999
Below1000(n) ==
    IF n < 100 THEN Below100(n)
    ELSE OnesWords[n \div 100] \o " Hundred"
           \o (IF n % 100 = 0 THEN "" ELSE " And " \o Below100(n % 100))

\* 0..999999
Cardinal(n) ==
    IF n = 0 THEN "Zero"
    ELSE IF n < 1000 THEN Below1000(n)
    ELSE Below1000(n \div 1000) \o " Thousand"
           \o (IF n % 1000 = 0 THEN ""
               ELSE IF n % 1000 < 100 THEN " And " \o Below100(n % 1000)
               ELSE ", " \o Below1000(n % 1000))

\* num2words(n, lang="en").title(), for -999999..999999
Num2Words(n) == IF n < 0 THEN "Minus " \o Cardinal(-n) ELSE Cardinal(n)

\* whole = int(amount)
to_words_whole(amount) == IntPart(amount)

\* cents = round((amount - whole) * 100)
to_words_cents(amount) == RoundHalfEven(amount - to_words_whole(amount) * 1000, 10)

to_words(amount, currency) ==
    LET whole == to_words_whole(amount)
        cents == to_words_cents(amount)
        whole_words == Num2Words(whole)
    IN  IF cents > 0
        THEN whole_words \o " " \o currency_name(currency) \o " and "
                 \o Num2Words(cents) \o " Cents"
        ELSE whole_words \o " " \o currency_name(currency)

(***************************************************************************)
(* InvoiceCalculator                                                       *)
(***************************************************************************)
InvoiceInput(number, invoice_date, validity_year, total, taken, leave_dates, rate) ==
    [invoice_number |-> number, invoice_date |-> invoice_date,
     validity_year |-> validity_year, total_working_days |-> total,
     leaves_taken |-> taken, leave_dates |-> leave_dates, rate |-> rate]

calculate_amount_unrounded(days, rate) == days * rate

\* round(days * rate, 2)
calculate_amount(days, rate) == RoundHalfEven(days * rate, 10) * 10

RECURSIVE InsertDate(_, _)
\* d put before the first element of the sorted list that is later than d
InsertDate(d, sorted) ==
    IF sorted = <<>> THEN <<d>>
    ELSE IF DateLT(d, Head(sorted)) THEN <<d>> \o sorted
    ELSE <<Head(sorted)>> \o InsertDate(d, Tail(sorted))

leave_dates_as_given(dates) == dates

RECURSIVE SortDates(_)
\* sorted(dates)
SortDates(dates) ==
    IF dates = <<>> THEN <<>>
    ELSE InsertDate(dates[Len(dates)], SortDates(SubSeq(dates, 1, Len(dates) - 1)))

days_worked_clamped(input_data) ==
    IF input_data.total_working_days < input_data.leaves_taken THEN 0
    ELSE input_data.total_working_days - input_data.leaves_taken

\* days_worked = input_data.total_working_days - input_data.leaves_taken
days_worked_of(input_data) ==
    input_data.total_working_days - input_data.leaves_taken

create_invoice(input_data, currency) ==
    LET period == get_service_period(input_data.invoice_date)
        days_worked == days_worked_of(input_data)
        amount == calculate_amount(days_worked, input_data.rate)
        amount_words == to_words(amount, currency)
    IN  [invoice_number |-> input_data.invoice_number,
         invoice_date |-> input_data.invoice_date,
         service_period_start |-> period[1],
         service_period_end |-> period[2],
         validity_year |-> input_data.validity_year,
         total_working_days |-> input_data.total_working_days,
         leaves_taken |-> input_data.leaves_taken,
         leave_dates |-> SortDates(input_data.leave_dates),
         days_worked |-> days_worked,
         rate |-> input_data.rate,
         amount |-> amount,
         total_payable |-> amount,
         amount_in_words |-> amount_words]

(***************************************************************************)
(* Optional values                                                         *)
(***************************************************************************)
\* An Optional value: None is the empty tuple, a present value x is <<x>>.
None == <<>>
Some(x) == <<x>>

(***************************************************************************)
(* SQLiteLeaveRepository over the table                                    *)
(*   leaves(id INTEGER PRIMARY KEY AUTOINCREMENT,                          *)
(*          leave_date DATE NOT NULL UNIQUE, reason TEXT)                  *)
(* A row is [id, leave_date, reason].  The column leave_date holds the     *)
(* text of date.isoformat(), YYYY-MM-DD with zero-padded fields, and SQL   *)
(* compares these texts character by character; a row keeps the three      *)
(* fields as <<year, month, day>>, on which that comparison is DateLT.     *)
(* The bounds that get_for_month formats may name a month 13 or 14: they   *)
(* are compared as texts all the same.                                     *)
(***************************************************************************)
insert_keeping(table, row) == table \cup {row}

insert_or_ignore(table, row) ==
    IF \E r \in table : r.leave_date = row.leave_date THEN table
    ELSE table \cup {row}

\* INSERT OR REPLACE under UNIQUE(leave_date): the row that holds the date
\* is deleted, the new row is inserted.
insert_or_replace(table, row) ==
    {r \in table : r.leave_date # row.leave_date} \cup {row}

\* DELETE FROM leaves WHERE id = ?
delete_by_id(table, leave_id) == {r \in table : r.id # leave_id}

\* DELETE FROM leaves WHERE leave_date = ?
delete_by_date(table, leave_date) == {r \in table : r.leave_date # leave_date}

RECURSIVE OrderByLeaveDate(_)
\* ORDER BY leave_date, each row turned into a Leave by _row_to_leave
OrderByLeaveDate(rows) ==
    IF rows = {} THEN <<>>
    ELSE LET first == CHOOSE r \in rows :
                          \A o \in rows : DateLE(r.leave_date, o.leave_date)
         IN  <<Leave(first.id, first.leave_date, first.reason)>>
                 \o OrderByLeaveDate(rows \ {first})

get_for_month(table, year, month) ==
    LET start_date == <<year, month, 1>>
        end_date == IF month = 12 THEN <<year + 1, 1, 1>>
                    ELSE <<year, month + 1, 1>>
    IN  OrderByLeaveDate({r \in table : /\ DateLE(start_date, r.leave_date)
                                        /\ DateLT(r.leave_date, end_date)})

get_for_range(table, start_date, end_date) ==
    OrderByLeaveDate({r \in table : /\ DateLE(start_date, r.leave_date)
                                    /\ DateLE(r.leave_date, end_date)})

(***************************************************************************)
(* ManageLeavesUseCase: the LeaveResponse of add_leave, remove_leave and   *)
(* remove_leave_by_date.  fault is None, or the message of the exception   *)
(* the repository raises.                                                  *)
(***************************************************************************)
LeaveResponse(success, leave, error) ==
    [success |-> success, leave |-> leave, error |-> error]

add_leave(seq, leave_date, reason, fault) ==
    IF fault # None THEN LeaveResponse(FALSE, None, fault)
    ELSE LeaveResponse(TRUE, Some(Leave(seq + 1, leave_date, reason)), None)

remove_leave(table, leave_id, fault) ==
    IF fault # None THEN LeaveResponse(FALSE, None, fault)
    ELSE LeaveResponse(\E r \in table : r.id = leave_id, None, None)

remove_leave_by_date(table, leave_date, fault) ==
    IF fault # None THEN LeaveResponse(FALSE, None, fault)
    ELSE LeaveResponse(\E r \in table : r.leave_date = leave_date, None, None)

(***************************************************************************)
(* GetWorkingDaysUseCase                                                   *)
(***************************************************************************)
WorkingDaysFailure_silent(e) ==
    [success |-> FALSE, total_weekdays |-> 0, leaves |-> 0, working_days |-> 0,
     leave_dates |-> None, error |-> None]

\* WorkingDaysResponse(success=False, error=str(e))
WorkingDaysFailure(e) ==
    [success |-> FALSE, total_weekdays |-> 0, leaves |-> 0, working_days |-> 0,
     leave_dates |-> None, error |-> Some(e)]

WorkingDaysSuccess(r) ==
    [success |-> TRUE, total_weekdays |-> r.total_weekdays, leaves |-> r.leaves,
     working_days |-> r.working_days, leave_dates |-> Some(r.leave_dates),
     error |-> None]

\* str() of the calendar.IllegalMonthError that monthrange raises
IllegalMonthError(month) ==
    "bad month number " \o ToString(month) \o "; must be 1-12"

\* The month execute works on: the current one unless both year and month
\* are given.  0 stands for every falsy argument (None, 0).
effective_year(year, month, now) == IF year = 0 \/ month = 0 THEN now[1] ELSE year
effective_month(year, month, now) == IF year = 0 \/ month = 0 THEN now[2] ELSE month

get_working_days_execute(table, year, month, now, fault) ==
    LET y == effective_year(year, month, now)
        m == effective_month(year, month, now)
    IN  IF fault # None THEN WorkingDaysFailure(fault[1])
        ELSE IF m \notin 1..12 THEN WorkingDaysFailure(IllegalMonthError(m))
        ELSE WorkingDaysSuccess(calculate(y, m, get_for_month(table, y, m)))

get_working_days_execute_for_range(table, start_date, end_date, fault) ==
    IF fault # None THEN WorkingDaysFailure(fault[1])
    ELSE WorkingDaysSuccess(calculate_for_range(start_date, end_date,
                                get_for_range(table, start_date, end_date)))

(***************************************************************************)
(* PreviewInvoiceUseCase                                                   *)
(***************************************************************************)
\* Settings, as far as the invoice use cases read them; client_name is the
\* list of its words, what str.split() makes of it.
Settings(daily_rate, currency, client_name) ==
    [daily_rate |-> daily_rate, currency |-> currency, client_name |-> client_name]

InvoiceRequest(number, invoice_date, validity_year, total, taken, leave_dates, rate) ==
    [invoice_number |-> number, invoice_date |-> invoice_date,
     validity_year |-> validity_year, total_working_days |-> total,
     leaves_taken |-> taken, leave_dates |-> leave_dates, rate |-> rate]

rate_unless_falsy(request_rate, settings) ==
    IF request_rate # None /\ request_rate # Some(0) THEN request_rate[1]
    ELSE settings.daily_rate

\* a GenerateInvoiceRequest: the fields of the preview request and the format
GenerateInvoiceRequest(r, output_format) ==
    [invoice_number |-> r.invoice_number, invoice_date |-> r.invoice_date,
     validity_year |-> r.validity_year, total_working_days |-> r.total_working_days,
     leaves_taken |-> r.leaves_taken, leave_dates |-> r.leave_dates,
     rate |-> r.rate, output_format |-> output_format]

\* rate = request.rate if request.rate is not None else settings.daily_rate
rate_of(request_rate, settings) ==
    IF request_rate # None THEN request_rate[1] ELSE settings.daily_rate

\* the InvoiceInput both use cases build from the request
input_data_of(request, settings) ==
    InvoiceInput(request.invoice_number, request.invoice_date,
                 request.validity_year, request.total_working_days,
                 request.leaves_taken, request.leave_dates,
                 rate_of(request.rate, settings))

\* f"{amount:.2f}" of an amount of whole hundredths
Format2f(amount) ==
    (IF amount < 0 THEN "-" ELSE "")
        \o ToString(Abs(amount) \div 1000) \o "." \o Pad2((Abs(amount) % 1000) \div 10)

\* Invoice.service_period
service_period(invoice) ==
    isoformat(invoice.service_period_start) \o " to "
        \o isoformat(invoice.service_period_end)

PreviewFailure(e) ==
    [success |-> FALSE, service_period |-> None, days_worked |-> None,
     amount |-> None, total_payable |-> None, amount_in_words |-> None,
     error |-> Some(e)]

preview_execute(request, settings, fault) ==
    IF fault # None THEN PreviewFailure(fault[1])
    ELSE LET invoice == create_invoice(input_data_of(request, settings),
                                       settings.currency)
         IN  [success |-> TRUE,
              service_period |-> Some(service_period(invoice)),
              days_worked |-> Some(invoice.days_worked),
              amount |-> Some(Format2f(invoice.amount)),
              total_payable |-> Some(Format2f(invoice.total_payable)),
              amount_in_words |-> Some(invoice.amount_in_words),
              error |-> None]

(***************************************************************************)
(* DocxGenerator and the output directory.  A path is [stem, suffix]; the  *)
(* files on disk are the set of their paths.                               *)
(***************************************************************************)
\* invoice_date.strftime("%B")
MonthName(month) ==
    <<"January", "February", "March", "April", "May", "June", "July",
      "August", "September", "October", "November", "December">>[month]

\* settings.client_name.split()[0] if settings.client_name else "Invoice"
client_of(settings) ==
    IF settings.client_name = <<>> THEN "Invoice" ELSE settings.client_name[1]

\* DocxGenerator._get_filepath
get_filepath(invoice, settings) ==
    [stem |-> client_of(settings) \o " Invoice - "
                  \o ToString(invoice.invoice_number) \o " - "
                  \o MonthName(invoice.invoice_date[2]) \o " "
                  \o ToString(invoice.invoice_date[1]),
     suffix |-> ".docx"]

\* Path.with_suffix
with_suffix(path, suffix) == [stem |-> path.stem, suffix |-> suffix]
\* Path.name
name_of(path) == path.stem \o path.suffix
\* str(path.absolute()), the output directory being PROJECT_ROOT / "output"
absolute_str(path) == "/output/" \o name_of(path)

(***************************************************************************)
(* SQLiteInvoiceRepository.save: one more row in the table invoices, its   *)
(* id the next of the AUTOINCREMENT sequence.                              *)
(***************************************************************************)
invoice_row(id, invoice, docx_path, pdf_path) ==
    [id |-> id, invoice_number |-> invoice.invoice_number,
     invoice_date |-> invoice.invoice_date,
     service_period_start |-> invoice.service_period_start,
     service_period_end |-> invoice.service_period_end,
     days_worked |-> invoice.days_worked, amount |-> invoice.amount,
     docx_path |-> docx_path, pdf_path |-> pdf_path]

(***************************************************************************)
(* GenerateInvoiceUseCase.execute.  env says what the collaborators do in  *)
(* this call: settings_fault, generate_fault and save_fault are None or    *)
(* the message of the exception raised by the settings repository, the     *)
(* document generator and the invoice repository; unlink_fault is whether  *)
(* deleting the DOCX raises; conversion is what the PDFConverter does:     *)
(*   "pdf"      it returns the path of the PDF it wrote,                   *)
(*   "missing"  it returns a path where no file is,                        *)
(*   "none"     it returns None,                                           *)
(*   "raise"    it raises, with env.conversion.message.                    *)
(* A document generator that raises has written no file.                   *)
(***************************************************************************)
\* str.lower(), on the texts of the model
Lower(text) ==
    CASE text = "PDF" -> "pdf"
      [] text = "Both" -> "both"
      [] text = "True" -> "true"
      [] OTHER -> text

GenerateFailure(e) ==
    [success |-> FALSE, invoice |-> None, docx_filename |-> None,
     pdf_filename |-> None, pdf_error |-> None, error |-> Some(e)]

\* pdf_path after the conversion: the path convert returned, if any
pdf_path_of(docx_path, conversion) ==
    IF conversion.kind \in {"pdf", "missing"}
    THEN Some(with_suffix(docx_path, ".pdf")) ELSE None

\* pdf_error after the conversion
pdf_error_of(conversion) ==
    IF conversion.kind = "raise" THEN Some(conversion.message)
    ELSE IF conversion.kind = "pdf" THEN None
    ELSE Some("PDF file was not created")

docx_deleted_always(output_format, conversion, unlink_fault) ==
    output_format = "pdf"

\* whether docx_path.unlink() is reached and removes the file
docx_deleted(output_format, conversion, unlink_fault) ==
    output_format = "pdf" /\ conversion.kind = "pdf" /\ ~unlink_fault

\* The call from the first document on: what is on disk, what is saved and
\* what is answered once the DOCX is written.
generate_documents(request, settings, env, disk, invoice, output_format) ==
    LET generate_pdf == output_format \in {"pdf", "both"}
        docx_file == get_filepath(invoice, settings)
        conversion == IF generate_pdf THEN env.conversion
                      ELSE [kind |-> "skipped", message |-> ""]
        pdf_path == pdf_path_of(docx_file, conversion)
        pdf_exists == conversion.kind = "pdf"
        pdf_path_str == IF pdf_exists THEN Some(absolute_str(pdf_path[1])) ELSE None
        pdf_error == IF generate_pdf THEN pdf_error_of(conversion) ELSE None
        deleted == /\ generate_pdf
                   /\ docx_deleted(output_format, conversion, env.unlink_fault)
        docx_path == IF deleted THEN None ELSE Some(docx_file)
        docx_path_str == IF deleted THEN "" ELSE absolute_str(docx_file)
        written == {docx_file} \cup (IF pdf_exists THEN {pdf_path[1]} ELSE {})
        removed == IF deleted THEN {docx_file} ELSE {}
        on_disk == (disk \cup written) \ removed
    IN  IF env.save_fault # None
        THEN [response |-> GenerateFailure(env.save_fault[1]),
              saved |-> None, files |-> on_disk, written |-> written]
        ELSE [response |->
                  [success |-> TRUE, invoice |-> Some(invoice),
                   docx_filename |-> IF docx_path # None
                                     THEN Some(name_of(docx_path[1])) ELSE None,
                   pdf_filename |-> IF pdf_path # None
                                    THEN Some(name_of(pdf_path[1])) ELSE None,
                   pdf_error |-> pdf_error, error |-> None],
              saved |-> Some([docx_path |-> docx_path_str, pdf_path |-> pdf_path_str]),
              files |-> on_disk, written |-> written]

\* The call when the format asks for no document: the record is saved with
\* docx_path "" and pdf_path None.
generate_nothing(env, disk, invoice) ==
    IF env.save_fault # None
    THEN [response |-> GenerateFailure(env.save_fault[1]),
          saved |-> None, files |-> disk, written |-> {}]
    ELSE [response |->
              [success |-> TRUE, invoice |-> Some(invoice),
               docx_filename |-> None, pdf_filename |-> None,
               pdf_error |-> None, error |-> None],
          saved |-> Some([docx_path |-> "", pdf_path |-> None]),
          files |-> disk, written |-> {}]

generate_execute(request, settings, env, disk) ==
    LET invoice == create_invoice(input_data_of(request, settings), settings.currency)
        output_format == Lower(request.output_format)
        nothing_done(e) == [response |-> GenerateFailure(e), saved |-> None,
                            files |-> disk, written |-> {}]
    IN  IF env.settings_fault # None THEN nothing_done(env.settings_fault[1])
        ELSE IF output_format \notin {"pdf", "docx", "both"}
        THEN generate_nothing(env, disk, invoice)
        ELSE IF env.generate_fault # None THEN nothing_done(env.generate_fault[1])
        ELSE generate_documents(request, settings, env, disk, invoice, output_format)

(***************************************************************************)
(* CrossPlatformPDFConverter.  The converter is [strategies, available]:   *)
(* the names of its strategies in order of preference and the cache        *)
(* _available_strategies, None until the first convert.  outcomes says     *)
(* what the convert of each strategy does in this call: "file" (it returns *)
(* True, the PDF is written), "no_file" (it returns False) or "raise".     *)
(* invoked lists the strategies whose convert the call ran, in order.      *)
(***************************************************************************)
\* _get_default_strategies
default_strategies(system) ==
    CASE system = "Darwin" -> <<"docx2pdf (MS Word)", "LibreOffice", "unoconv">>
      [] system = "Windows" -> <<"docx2pdf (MS Word)", "LibreOffice">>
      [] OTHER -> <<"LibreOffice", "unoconv">>

\* CrossPlatformPDFConverter.__init__ with no strategies given
CrossPlatformPDFConverter(system) ==
    [strategies |-> default_strategies(system), available |-> None]

\* get_available_strategies: the cache, filled on first use with the
\* strategies whose is_available() is true
get_available_strategies(converter, installed) ==
    IF converter.available # None THEN converter.available[1]
    ELSE SelectSeq(converter.strategies, LAMBDA name : name \in installed)

\* the entry a failed strategy leaves in errors
error_entry(name, outcome) ==
    IF outcome = "raise" THEN name \o ": " \o "subprocess failed"
    ELSE name \o ": conversion returned no file"

RECURSIVE JoinErrors(_)
\* "; ".join(errors)
JoinErrors(errors) ==
    IF Len(errors) = 0 THEN ""
    ELSE IF Len(errors) = 1 THEN errors[1]
    ELSE errors[1] \o "; " \o JoinErrors(Tail(errors))

RECURSIVE try_strategies(_, _, _, _)
\* the loop over the available strategies, from the i-th on
try_strategies(available, outcomes, i, errors) ==
    IF i > Len(available)
    THEN [returned |-> FALSE, invoked |-> available,
          raised |-> Some("PDF conversion failed. Tried: " \o JoinErrors(errors))]
    ELSE IF outcomes[available[i]] = "file"
    THEN [returned |-> TRUE, invoked |-> SubSeq(available, 1, i), raised |-> None]
    ELSE try_strategies(available, outcomes, i + 1,
             Append(errors, error_entry(available[i], outcomes[available[i]])))

\* CrossPlatformPDFConverter.convert: returned says whether output_path is
\* returned, raised is None or the message of the RuntimeError.
convert(available, outcomes) ==
    IF available = <<>>
    THEN [returned |-> FALSE, invoked |-> <<>>,
          raised |-> Some("No PDF conversion method available. "
                          \o "Please install LibreOffice, MS Word, or unoconv.")]
    ELSE try_strategies(available, outcomes, 1, <<>>)

(***************************************************************************)
(* create_invoice, statement by statement, as the request threads run it   *)
(* on the one InvoiceCalculator of the container.  A frame holds a call's  *)
(* arguments and locals: passed is the InvoiceInput as the caller passed   *)
(* it, input_data the same object as it is now.  The calculator, the       *)
(* WorkingDaysCalculator and the AmountFormatter are assigned no attribute *)
(* after __init__, so the frames are all a call reads and writes.          *)
(***************************************************************************)
\* Flask's development server serves each request in a thread of its own.
Threads == {1, 2}

NoInput == InvoiceInput(0, <<1, 1, 1>>, "", 0, 0, <<>>, 0)

IdleFrame ==
    [pc |-> "idle", passed |-> NoInput, input_data |-> NoInput, currency |-> "",
     period_start |-> <<1, 1, 1>>, period_end |-> <<1, 1, 1>>,
     days_worked |-> 0, amount |-> 0, amount_words |-> "", invoice |-> None]

days_worked_shared(all, t) ==
    all[CHOOSE u \in Threads : \A v \in Threads : u <= v].days_worked

\* days_worked as line 44 reads it: the local of the call thread t is in
days_worked_local(all, t) == all[t].days_worked

\* period_start, period_end = self._working_days.get_service_period(...)
frame_after_period(f) ==
    LET period == get_service_period(f.input_data.invoice_date)
    IN  [f EXCEPT !.period_start = period[1], !.period_end = period[2],
                  !.pc = "days_worked"]

\* days_worked = input_data.total_working_days - input_data.leaves_taken
frame_after_days_worked(f) ==
    [f EXCEPT !.days_worked = days_worked_of(f.input_data), !.pc = "amount"]

\* amount = self.calculate_amount(days_worked, input_data.rate)
frame_after_amount(f, days_worked) ==
    [f EXCEPT !.amount = calculate_amount(days_worked, f.input_data.rate),
              !.pc = "amount_words"]

\* amount_words = self._formatter.to_words(amount, currency)
frame_after_amount_words(f) ==
    [f EXCEPT !.amount_words = to_words(f.amount, f.currency), !.pc = "return"]

\* return Invoice(...)
frame_after_return(f) ==
    [f EXCEPT !.invoice =
                  Some([invoice_number |-> f.input_data.invoice_number,
                        invoice_date |-> f.input_data.invoice_date,
                        service_period_start |-> f.period_start,
                        service_period_end |-> f.period_end,
                        validity_year |-> f.input_data.validity_year,
                        total_working_days |-> f.input_data.total_working_days,
                        leaves_taken |-> f.input_data.leaves_taken,
                        leave_dates |-> SortDates(f.input_data.leave_dates),
                        days_worked |-> f.days_worked,
                        rate |-> f.input_data.rate,
                        amount |-> f.amount,
                        total_payable |-> f.amount,
                        amount_in_words |-> f.amount_words]),
              !.pc = "returned"]

(***************************************************************************)
(* The invoice routes.  A body is request.json: a field is None when the   *)
(* key is absent; a date text "Y-M-D" is <<Y, M, D>> as written, which     *)
(* need not be a day of the calendar.  A route answers [status, success,   *)
(* error, ...]; done is what the use case did, None when it was not        *)
(* called.                                                                 *)
(***************************************************************************)
\* the fields of the dataclass PreviewInvoiceRequest
PreviewInvoiceRequest_fields ==
    {"invoice_number", "invoice_date", "validity_year", "total_working_days",
     "leaves_taken", "leave_dates", "rate"}

\* the fields of the dataclass GenerateInvoiceRequest
GenerateInvoiceRequest_fields == PreviewInvoiceRequest_fields \cup {"output_format"}

\* the keyword arguments preview() passes to PreviewInvoiceRequest
preview_kwargs ==
    <<"invoice_number", "invoice_date", "validity_year", "total_working_days",
      "leaves_taken", "leave_dates", "rate",
      "service_period_start", "service_period_end">>

\* the keyword arguments generate() passes to GenerateInvoiceRequest
generate_kwargs ==
    <<"invoice_number", "invoice_date", "validity_year", "total_working_days",
      "leaves_taken", "leave_dates", "rate", "output_format",
      "service_period_start", "service_period_end">>

\* datetime.strptime(text, "%Y-%m-%d").date(): ValueError (None) unless the
\* text names a day of the calendar
strptime(text) ==
    IF text[2] \in 1..12 /\ text[3] \in 1..DaysInMonth(text[1], text[2])
    THEN Some(text) ELSE None

\* the exception raised while the route parses the body and evaluates the
\* arguments of the request, if any: KeyError of a missing key, ValueError
\* of a date text
body_error(body) ==
    LET bad_dates == {strptime(body.leave_dates[i]) = None : i \in DOMAIN body.leave_dates}
        bad_period(field) == field # None /\ strptime(field[1]) = None
    IN  IF body.invoice_date = None THEN Some("'invoice_date'")
        ELSE IF strptime(body.invoice_date[1]) = None
        THEN Some("day is out of range for month")
        ELSE IF TRUE \in bad_dates THEN Some("day is out of range for month")
        ELSE IF bad_period(body.service_period_start)
                  \/ bad_period(body.service_period_end)
        THEN Some("day is out of range for month")
        ELSE IF body.invoice_number = None THEN Some("'invoice_number'")
        ELSE IF body.validity_year = None THEN Some("'validity_year'")
        ELSE IF body.total_working_days = None THEN Some("'total_working_days'")
        ELSE None

\* the __init__ a dataclass generates: TypeError on the first keyword that
\* is not a field
init_error(cls, fields, kwargs) ==
    LET unexpected == SelectSeq(kwargs, LAMBDA k : k \notin fields)
    IN  IF unexpected = <<>> THEN None
        ELSE Some(cls \o ".__init__() got an unexpected keyword argument '"
                      \o unexpected[1] \o "'")

\* float(data["rate"]) if data.get("rate") else None
rate_of_body(rate) == IF rate = None \/ rate = Some(0) THEN None ELSE rate

\* the request the arguments of the route make, for a body without error
request_of_body(body) ==
    InvoiceRequest(body.invoice_number[1], body.invoice_date[1],
                   body.validity_year[1], body.total_working_days[1],
                   IF body.leaves_taken = None THEN 0 ELSE body.leaves_taken[1],
                   body.leave_dates, rate_of_body(body.rate))

\* data.get("output_format", "pdf")
output_format_of_body(body) ==
    IF body.output_format = None THEN "pdf" ELSE body.output_format[1]

\* jsonify({"success": False, "error": ...}), 400
route_failure(error) ==
    [status |-> 400, success |-> FALSE, error |-> error, payload |-> None]

\* generate(): the answer and what the use case did
generate_route(body, settings, env, disk) ==
    LET raised == IF body_error(body) # None THEN body_error(body)
                  ELSE init_error("GenerateInvoiceRequest",
                                  GenerateInvoiceRequest_fields, generate_kwargs)
        done == generate_execute(
                    GenerateInvoiceRequest(request_of_body(body),
                                           output_format_of_body(body)),
                    settings, env, disk)
    IN  IF raised # None THEN [answer |-> route_failure(raised), done |-> None]
        ELSE IF ~done.response.success
        THEN [answer |-> route_failure(done.response.error), done |-> Some(done)]
        ELSE [answer |->
                  [status |-> 200, success |-> TRUE, error |-> None,
                   payload |->
                       Some([number |-> done.response.invoice[1].invoice_number,
                             docx |-> done.response.docx_filename,
                             pdf |-> done.response.pdf_filename,
                             pdf_error |-> done.response.pdf_error])],
              done |-> Some(done)]

\* preview(): the answer and what the use case returned
preview_route(body, settings, fault) ==
    LET raised == IF body_error(body) # None THEN body_error(body)
                  ELSE init_error("PreviewInvoiceRequest",
                                  PreviewInvoiceRequest_fields, preview_kwargs)
        done == preview_execute(request_of_body(body), settings, fault)
    IN  IF raised # None THEN [answer |-> route_failure(raised), done |-> None]
        ELSE IF ~done.success
        THEN [answer |-> route_failure(done.error), done |-> Some(done)]
        ELSE [answer |->
                  [status |-> 200, success |-> TRUE, error |-> None,
                   payload |->
                       Some([service_period |-> done.service_period[1],
                             days_worked |-> done.days_worked[1],
                             amount |-> done.amount[1],
                             amount_in_words |-> done.amount_in_words[1]])],
              done |-> Some(done)]

(***************************************************************************)
(* SQLiteSettingsRepository and ManageSettingsUseCase.  The settings table *)
(* holds text under a key; None is a key with no row.  The text of         *)
(* daily_rate is [numeric, value]: whether float() reads it, and the       *)
(* number it reads.  Of the keys, the model keeps the three the use cases  *)
(* compute with.                                                           *)
(***************************************************************************)
SettingsKeys == {"daily_rate", "currency", "setup_complete"}

\* the table _init_schema creates: no row
NoSettings == [key \in SettingsKeys |-> None]

\* the text save_all stores for a value: "true" / "false" for a bool,
\* str(value) otherwise
stored_text(key, value) ==
    IF key = "setup_complete" THEN (IF value THEN "true" ELSE "false") ELSE value

\* save_all: INSERT OR REPLACE of every key of the dictionary
save_all(table, data) ==
    [key \in SettingsKeys |->
        IF data[key] = None THEN table[key]
        ELSE Some(stored_text(key, data[key][1]))]

\* Settings.from_dict on the rows of the table: float() of the rate raises
\* ValueError on text that is no number
from_dict(table) ==
    IF table.daily_rate # None /\ ~table.daily_rate[1].numeric
    THEN [settings |-> None,
          raised |-> Some("could not convert string to float: 'abc'")]
    ELSE [settings |->
              Some([daily_rate |-> IF table.daily_rate = None THEN 0
                                   ELSE table.daily_rate[1].value,
                    currency |-> IF table.currency = None THEN "EUR"
                                 ELSE table.currency[1],
                    setup_complete |-> /\ table.setup_complete # None
                                       /\ Lower(table.setup_complete[1]) = "true"]),
          raised |-> None]

\* SQLiteSettingsRepository.get_all
get_all_settings(table, fault) ==
    IF fault # None THEN [settings |-> None, raised |-> fault] ELSE from_dict(table)

SettingsResponse(success, settings, error) ==
    [success |-> success, settings |-> settings, error |-> error]

\* ManageSettingsUseCase.get_settings
get_settings(table, fault) ==
    LET got == get_all_settings(table, fault)
    IN  [raised |-> None,
         response |-> IF got.raised # None
                      THEN SettingsResponse(FALSE, None, got.raised)
                      ELSE SettingsResponse(TRUE, got.settings, None)]

\* ManageSettingsUseCase.save_settings: a save_all that raises commits no
\* row; the get_all after it reads the rows just saved
save_settings(table, data, fault) ==
    IF fault # None
    THEN [raised |-> None, response |-> SettingsResponse(FALSE, None, fault),
          table |-> table]
    ELSE [raised |-> None,
          response |-> get_settings(save_all(table, data), None).response,
          table |-> save_all(table, data)]

\* ManageSettingsUseCase.is_setup_complete
is_setup_complete(table, fault) ==
    IF fault # None THEN [raised |-> fault, complete |-> FALSE]
    ELSE [raised |-> None,
          complete |-> /\ table.setup_complete # None
                       /\ Lower(table.setup_complete[1]) = "true"]

\* ManageSettingsUseCase.get_config
get_config(table, fault) ==
    LET got == get_all_settings(table, fault)
    IN  IF got.raised # None THEN [raised |-> got.raised, config |-> None]
        ELSE [raised |-> None,
              config |-> Some([rate |-> got.settings[1].daily_rate,
                               currency |-> got.settings[1].currency,
                               setup_complete |-> got.settings[1].setup_complete])]

(***************************************************************************)
(* The container singleton.  container is the module global _container:    *)
(* instance is None or the number of the Container it refers to.  Beside   *)
(* it, built counts the Containers ever built (the n-th has the number n), *)
(* created the runs of create_container since the last reset_container,    *)
(* resets the reset_container calls, and floor the value of built at the    *)
(* last of them.  A thread in get_container has a pc, the Container it     *)
(* made, and what it returned: None before the return, Some(v) after it    *)
(* with v the value of _container it read.  reset_seen says that a         *)
(* reset_container ran since the call began.                               *)
(***************************************************************************)
\* _container: Optional[Container] = None
NoContainer == [instance |-> None, built |-> 0, created |-> 0, resets |-> 0,
                floor |-> 0]

\* a thread outside get_container
IdleGet == [pc |-> "idle", made |-> None, returned |-> None, reset_seen |-> FALSE]

\* if _container is None: the branch taken on the value read
get_branch(instance) == IF instance = None THEN "create" ELSE "return"

\* create_container(): a new Container, the next by number
create_container(c) == [c EXCEPT !.built = @ + 1, !.created = @ + 1]

\* reset_container(): _container = None
reset_container(c) ==
    [c EXCEPT !.instance = None, !.created = 0, !.resets = @ + 1, !.floor = c.built]

(***************************************************************************)
(* SQLiteInvoiceRepository: deleting and numbering.                        *)
(***************************************************************************)
\* DELETE FROM invoices WHERE id = ?
delete_invoice(table, invoice_id) == {r \in table : r.id # invoice_id}

get_last_number_counted(table) == Cardinality(table)

\* SELECT MAX(invoice_number): None of an empty table
max_num(table) ==
    IF table = {} THEN None
    ELSE Some(CHOOSE n \in {r.invoice_number : r \in table} :
                  \A r \in table : r.invoice_number <= n)

\* row["max_num"] if row and row["max_num"] else 0: a maximum of 0 is falsy
get_last_number(table) ==
    IF max_num(table) # None /\ max_num(table)[1] # 0 THEN max_num(table)[1] ELSE 0

get_next_number(table) == get_last_number(table) + 1

(***************************************************************************)
(* Inputs                                                                  *)
(***************************************************************************)
\* Two century years exercise both branches of the leap-year rule.
Years == (2024..LastYear) \cup {1900, 2000}
Months == 1..12

AllDates ==
    {<<y, m, d>> : y \in Years, m \in Months, d \in 1..31}
        \ {<<y, m, d>> \in Years \X Months \X (29..31) : d > DaysInMonth(y, m)}

\* 2025-01-30 is a Thursday: the window 2025-01-30 .. 2025-02-04 holds
\* weekdays of two months and the weekend between them.
WindowStart == <<2025, 1, 30>>

RECURSIVE DaysFrom(_, _)
DaysFrom(d, n) == IF n = 0 THEN {} ELSE {d} \cup DaysFrom(NextDay(d), n - 1)

Window == DaysFrom(WindowStart, WindowDays)

SeqsUpTo(S, n) == UNION {[1..k -> S] : k \in 0..n}

\* Lists of leaves: ids 1..n in list order, as a repository returns them.
LeaveLists ==
    {[i \in DOMAIN ds |-> Leave(i, ds[i], "")] : ds \in SeqsUpTo(Window, MaxLeaves)}

\* Money, in thousandths: 0, 0.01, 100.00, 100.333 and 100.50 a day.
Rates == {0, 10, 100000, 100333, 100500}

\* Currency codes: known ones, a lower-case one and an unknown one.
Currencies == {"EUR", "USD", "GBP", "INR", "eur", "XYZ"}
InvoiceCurrencies == {"EUR", "usd"}

\* A common-year January date and a leap-year February date.
InvoiceDates == {<<2025, 1, 15>>, <<2024, 2, 15>>}

\* Tuesday, Monday and Saturday of the same week.
InvoiceLeaveDates == {<<2025, 1, 7>>, <<2025, 1, 6>>, <<2025, 1, 4>>}

InvoiceInputs ==
    {InvoiceInput(1, invoice_date, "2025-26", total_working_days, leaves_taken,
                  leave_dates, rate) :
        invoice_date \in InvoiceDates,
        total_working_days \in (0..MaxDays) \cup {23},
        leaves_taken \in 0..(MaxDays + 1),
        leave_dates \in SeqsUpTo(InvoiceLeaveDates, MaxInvoiceLeaves),
        rate \in Rates}

\* Amounts passed to to_words on its own: every amount of whole cents from
\* -MaxCents to MaxCents hundredths, the amounts of the unit tests, and
\* amounts with a third decimal.
Amounts ==
    {c * 10 : c \in (-MaxCents)..MaxCents}
        \cup {100000, 100500, 6194600, 100010, 999999990, 100550, 250000}
        \cup {-150500, -2100000, 100999, 100004, 1001000}

(***************************************************************************)
(* The calls                                                               *)
(***************************************************************************)
\* The days leaves are stored on and ranges are asked for: Thursday and
\* Friday at the end of January 2025, the Saturday and the Monday after.
StoreDates == {<<2025, 1, 30>>, <<2025, 1, 31>>, <<2025, 2, 1>>, <<2025, 2, 3>>}
Reasons == {"", "Sick"}

\* What a repository call does: it works (None) or raises with a message.
LeaveFaults == {None, Some("Database error")}
SettingsFaults == {None, Some("Settings not found")}

\* The months asked for: not given (0), the two months of StoreDates, and a
\* month no calendar has.
AskedYears == {0, 2025}
AskedMonths == {0, 1, 2, 13}
\* datetime.now(), as a date
NowDates == {<<2025, 1, 31>>, <<2024, 2, 29>>}

\* The settings table: as created, with a rate, and with a client.
SettingsValues ==
    {Settings(0, "EUR", <<>>), Settings(75000, "EUR", <<>>),
     Settings(50000, "USD", <<"Acme", "Corp">>)}

\* No rate, a rate of 0, and two rates of the tests.
RequestRates == {None, Some(0), Some(100000), Some(100500)}

PreviewRequests ==
    {InvoiceRequest(1, <<2025, 1, 15>>, "2025-26", 20, leaves_taken, <<>>, rate) :
        leaves_taken \in {0, 1}, rate \in RequestRates}

\* The invoices generated: two numbers, no rate or a rate of 0 (the settings
\* have a rate of 75), the three formats, one in capitals and an unknown one.
InvoiceNumbers == {1, 2}
GenerateRates == {None, Some(0)}
OutputFormats == {"pdf", "docx", "both", "PDF", "html"}
GenerateSettings == {Settings(75000, "EUR", <<>>)}

GenerateRequests ==
    {GenerateInvoiceRequest(
         InvoiceRequest(number, <<2025, 1, 15>>, "2025-26", 20, 0, <<>>, rate),
         output_format) :
        number \in InvoiceNumbers, rate \in GenerateRates,
        output_format \in OutputFormats}

\* What a PDFConverter does with the DOCX.
Conversions ==
    {[kind |-> "pdf", message |-> ""], [kind |-> "missing", message |-> ""],
     [kind |-> "none", message |-> ""],
     [kind |-> "raise", message |-> "No PDF conversion method available. "
                          \o "Please install LibreOffice, MS Word, or unoconv."]}

NoFaults ==
    [settings_fault |-> None, generate_fault |-> None,
     conversion |-> [kind |-> "pdf", message |-> ""],
     unlink_fault |-> FALSE, save_fault |-> None]

\* One collaborator fails in a call, or the conversion and the save both do.
GenerateEnvs ==
    {[NoFaults EXCEPT !.settings_fault = Some("Settings not found")],
     [NoFaults EXCEPT !.generate_fault = Some("Permission denied")],
     [NoFaults EXCEPT !.unlink_fault = TRUE]}
    \cup {[NoFaults EXCEPT !.conversion = c, !.save_fault = f] :
              c \in Conversions, f \in {None, Some("database is locked")}}

\* platform.system()
Systems == {"Darwin", "Windows", "Linux"}
StrategyNames == {"docx2pdf (MS Word)", "LibreOffice", "unoconv"}
StrategyOutcomes == {"file", "no_file", "raise"}
\* the documents handed to the converter
SourcePaths == {[stem |-> "Invoice Invoice - 1 - January 2025", suffix |-> ".docx"]}

\* The invoices the request threads ask for: they differ in every field.
ThreadInputs ==
    {InvoiceInput(1, <<2025, 1, 15>>, "2025-26", 2, 0,
                  << <<2025, 1, 7>>, <<2025, 1, 6>> >>, 100500),
     InvoiceInput(2, <<2024, 2, 15>>, "2024-25", 23, 3, <<>>, 100000)}

\* The bodies posted to /generate and /preview.
BodyDates == {<<2025, 1, 15>>, <<2025, 2, 30>>}
Bodies ==
    [invoice_number : {None, Some(1)},
     invoice_date : {None} \cup {Some(d) : d \in BodyDates},
     validity_year : {Some("2025-26")},
     total_working_days : {None, Some(20)},
     leaves_taken : {None, Some(1)},
     leave_dates : {<<>>, << <<2025, 1, 7>> >>},
     rate : {None, Some(0), Some(100000)},
     output_format : {None, Some("docx")},
     service_period_start : {None, Some(<<2025, 1, 1>>)},
     service_period_end : {None, Some(<<2025, 1, 31>>)}]

\* The dictionaries posted to save_settings.
SettingsData ==
    [daily_rate : {None, Some([numeric |-> TRUE, value |-> 75000]),
                   Some([numeric |-> FALSE, value |-> 0])},
     currency : {None, Some("USD")},
     setup_complete : {None, Some(TRUE), Some(FALSE)}]

\* The requests and the collaborators where records are saved and deleted:
\* DOCX only, numbers around 0, and the repository may fail.
RecordNumbers == {-1, 0, 1}
RecordRequests ==
    {GenerateInvoiceRequest(
         InvoiceRequest(number, <<2025, 1, 15>>, "2025-26", 20, 0, <<>>, None),
         "docx") : number \in RecordNumbers}
RecordEnvs == {NoFaults, [NoFaults EXCEPT !.save_fault = Some("database is locked")]}

NoCall == [op |-> "none"]

\* The database file is new (no row, AUTOINCREMENT counters at 0), the output
\* directory is empty, the container (and with it the PDF converter) is not
\* built yet and no request thread is inside create_invoice or
\* get_container.
Init ==
    /\ call = NoCall
    /\ result = NoCall
    /\ leaves_table = {}
    /\ leave_seq = 0
    /\ invoices_table = {}
    /\ invoice_seq = 0
    /\ files = {}
    /\ pdf_converter = None
    /\ frames = [t \in Threads |-> IdleFrame]
    /\ settings_table = NoSettings
    /\ container = NoContainer
    /\ container_calls = [t \in Threads |-> IdleGet]

CalculateWeekdays ==
    /\ call.op = "none"
    /\ UNCHANGED app_vars
    /\ \E year \in Years, month \in Months :
        /\ call' = [op |-> "calculate_weekdays", year |-> year, month |-> month]
        /\ result' = [weekdays |-> calculate_weekdays(year, month)]

Calculate ==
    /\ call.op = "none"
    /\ UNCHANGED app_vars
    /\ \E year \in Years, month \in Months, leaves \in LeaveLists :
        /\ call' = [op |-> "calculate", year |-> year, month |-> month,
                    leaves |-> leaves]
        /\ result' = calculate(year, month, leaves)

GetServicePeriod ==
    /\ call.op = "none"
    /\ UNCHANGED app_vars
    /\ \E reference_date \in AllDates :
        /\ call' = [op |-> "get_service_period", reference_date |-> reference_date]
        /\ result' = [period |-> get_service_period(reference_date)]

CalculateWeekdaysForRange ==
    /\ call.op = "none"
    /\ UNCHANGED app_vars
    /\ \/ \E start_date \in Window, end_date \in Window :
            /\ call' = [op |-> "calculate_weekdays_for_range",
                        start_date |-> start_date, end_date |-> end_date]
            /\ result' = [weekdays |->
                              calculate_weekdays_for_range(start_date, end_date)]
       \/ \E year \in Years, month \in Months :
            LET period == get_service_period(<<year, month, 1>>)
            IN  /\ call' = [op |-> "calculate_weekdays_for_range",
                            start_date |-> period[1], end_date |-> period[2]]
                /\ result' = [weekdays |->
                                  calculate_weekdays_for_range(period[1], period[2])]

CalculateForRange ==
    /\ call.op = "none"
    /\ UNCHANGED app_vars
    /\ \E start_date \in Window, end_date \in Window, leaves \in LeaveLists :
        /\ call' = [op |-> "calculate_for_range", start_date |-> start_date,
                    end_date |-> end_date, leaves |-> leaves]
        /\ result' = calculate_for_range(start_date, end_date, leaves)

ToWords ==
    /\ call.op = "none"
    /\ UNCHANGED app_vars
    /\ \E amount \in Amounts, currency \in Currencies :
        /\ call' = [op |-> "to_words", amount |-> amount, currency |-> currency]
        /\ result' = [text |-> to_words(amount, currency),
                      whole |-> to_words_whole(amount),
                      cents |-> to_words_cents(amount)]

CreateInvoice ==
    /\ call.op = "none"
    /\ UNCHANGED app_vars
    /\ \E input_data \in InvoiceInputs, currency \in InvoiceCurrencies :
        /\ call' = [op |-> "create_invoice", input_data |-> input_data,
                    currency |-> currency]
        /\ result' = create_invoice(input_data, currency)

\* The caller takes the returned value; the next call can be made.
Return ==
    /\ call.op # "none"
    /\ UNCHANGED app_vars
    /\ call' = NoCall
    /\ result' = NoCall

Next ==
    \/ CalculateWeekdays
    \/ Calculate
    \/ GetServicePeriod
    \/ CalculateWeekdaysForRange
    \/ CalculateForRange
    \/ ToWords
    \/ CreateInvoice
    \/ Return

Spec == Init /\ [][Next]_vars

(***************************************************************************)
(* The leave calendar: ManageLeavesUseCase and GetWorkingDaysUseCase over  *)
(* the leaves table, and PreviewInvoiceUseCase over the settings.  A       *)
(* repository call that raises leaves the table as it was: the connection  *)
(* is closed without commit.                                               *)
(***************************************************************************)
leave_unchanged == <<invoices_table, invoice_seq, files, pdf_converter, frames,
                     settings_table, container, container_calls>>

AddLeave ==
    /\ call.op = "none"
    /\ leave_seq < MaxLeaveId
    /\ \E leave_date \in StoreDates, reason \in Reasons, fault \in LeaveFaults :
        /\ call' = [op |-> "add_leave", leave_date |-> leave_date,
                    reason |-> reason, fault |-> fault]
        /\ result' = add_leave(leave_seq, leave_date, reason, fault)
        /\ IF fault = None
           THEN /\ leaves_table' = insert_or_replace(leaves_table,
                                       Leave(leave_seq + 1, leave_date, reason))
                /\ leave_seq' = leave_seq + 1
           ELSE UNCHANGED <<leaves_table, leave_seq>>
    /\ UNCHANGED leave_unchanged

RemoveLeave ==
    /\ call.op = "none"
    /\ \E leave_id \in 1..MaxLeaveId, fault \in LeaveFaults :
        /\ call' = [op |-> "remove_leave", leave_id |-> leave_id, fault |-> fault]
        /\ result' = remove_leave(leaves_table, leave_id, fault)
        /\ leaves_table' = IF fault = None THEN delete_by_id(leaves_table, leave_id)
                           ELSE leaves_table
    /\ UNCHANGED leave_seq
    /\ UNCHANGED leave_unchanged

RemoveLeaveByDate ==
    /\ call.op = "none"
    /\ \E leave_date \in StoreDates, fault \in LeaveFaults :
        /\ call' = [op |-> "remove_leave_by_date", leave_date |-> leave_date,
                    fault |-> fault]
        /\ result' = remove_leave_by_date(leaves_table, leave_date, fault)
        /\ leaves_table' = IF fault = None
                           THEN delete_by_date(leaves_table, leave_date)
                           ELSE leaves_table
    /\ UNCHANGED leave_seq
    /\ UNCHANGED leave_unchanged

GetWorkingDays ==
    /\ call.op = "none"
    /\ \E year \in AskedYears, month \in AskedMonths, now \in NowDates,
          fault \in LeaveFaults :
        /\ call' = [op |-> "get_working_days", year |-> year, month |-> month,
                    now |-> now, fault |-> fault]
        /\ result' = get_working_days_execute(leaves_table, year, month, now, fault)
    /\ UNCHANGED <<leaves_table, leave_seq>>
    /\ UNCHANGED leave_unchanged

GetWorkingDaysForRange ==
    /\ call.op = "none"
    /\ \E start_date \in StoreDates, end_date \in StoreDates, fault \in LeaveFaults :
        /\ call' = [op |-> "get_working_days_for_range", start_date |-> start_date,
                    end_date |-> end_date, fault |-> fault]
        /\ result' = get_working_days_execute_for_range(leaves_table, start_date,
                                                        end_date, fault)
    /\ UNCHANGED <<leaves_table, leave_seq>>
    /\ UNCHANGED leave_unchanged

PreviewInvoice ==
    /\ call.op = "none"
    /\ \E request \in PreviewRequests, settings \in SettingsValues,
          fault \in SettingsFaults :
        /\ call' = [op |-> "preview_invoice", request |-> request,
                    settings |-> settings, fault |-> fault]
        /\ result' = preview_execute(request, settings, fault)
    /\ UNCHANGED app_vars

LeaveNext ==
    \/ AddLeave
    \/ RemoveLeave
    \/ RemoveLeaveByDate
    \/ GetWorkingDays
    \/ GetWorkingDaysForRange
    \/ PreviewInvoice
    \/ Return

LeaveSpec == Init /\ [][LeaveNext]_vars

(***************************************************************************)
(* The invoices: GenerateInvoiceUseCase over the invoices table and the    *)
(* output directory, PreviewInvoiceUseCase beside it.  written is the set  *)
(* of files the call wrote, whether or not they are still there, and       *)
(* rows_before the number of rows ever saved when the call began.          *)
(***************************************************************************)
\* GenerateInvoiceUseCase.execute on a request of requests, in a call where
\* the collaborators do as one of envs says, while fewer than limit records
\* were ever saved.
Generate(requests, envs, limit) ==
    /\ call.op = "none"
    /\ invoice_seq < limit
    /\ \E request \in requests, settings \in GenerateSettings, env \in envs :
        LET done == generate_execute(request, settings, env, files)
        IN  /\ call' = [op |-> "generate_invoice", request |-> request,
                        settings |-> settings, env |-> env,
                        written |-> done.written, rows_before |-> invoice_seq]
            /\ result' = done.response
            /\ files' = done.files
            /\ IF done.saved # None
               THEN /\ invoices_table' = invoices_table \cup
                          {invoice_row(invoice_seq + 1, done.response.invoice[1],
                                       done.saved[1].docx_path,
                                       done.saved[1].pdf_path)}
                    /\ invoice_seq' = invoice_seq + 1
               ELSE UNCHANGED <<invoices_table, invoice_seq>>
    /\ UNCHANGED <<leaves_table, leave_seq, pdf_converter, frames,
                   settings_table, container, container_calls>>

GenerateInvoice == Generate(GenerateRequests, GenerateEnvs, MaxInvoices)

InvoiceNext ==
    \/ GenerateInvoice
    \/ PreviewInvoice
    \/ Return

InvoiceSpec == Init /\ [][InvoiceNext]_vars

(***************************************************************************)
(* The PDF converter: built once with the container, then asked to         *)
(* convert.  A strategy that reports "file" has written output_path, which *)
(* takes its program to be installed during the call.                      *)
(***************************************************************************)
CreateConverter ==
    /\ call.op = "none"
    /\ pdf_converter = None
    /\ \E system \in Systems :
        pdf_converter' = Some(CrossPlatformPDFConverter(system))
    /\ UNCHANGED <<call, result, leaves_table, leave_seq, invoices_table,
                   invoice_seq, files, frames, settings_table, container,
                   container_calls>>

Convert ==
    /\ call.op = "none"
    /\ pdf_converter # None
    /\ \E source_path \in SourcePaths, installed \in SUBSET StrategyNames :
        LET available == get_available_strategies(pdf_converter[1], installed)
            strategies == pdf_converter[1].strategies
            names == {strategies[i] : i \in DOMAIN strategies}
        IN  \E outcomes \in {o \in [names -> StrategyOutcomes] :
                                \A name \in names :
                                    o[name] = "file" => name \in installed} :
              LET done == convert(available, outcomes)
                  output_path == with_suffix(source_path, ".pdf")
              IN  /\ call' = [op |-> "convert", source_path |-> source_path,
                              strategies |-> pdf_converter[1].strategies,
                              installed |-> installed,
                              available |-> available, outcomes |-> outcomes,
                              invoked |-> done.invoked]
                  /\ result' = [returned |-> IF done.returned
                                             THEN Some(output_path) ELSE None,
                                raised |-> done.raised]
                  /\ files' = IF done.returned THEN files \cup {output_path}
                              ELSE files
                  /\ pdf_converter' =
                         Some([pdf_converter[1] EXCEPT !.available = Some(available)])
    /\ UNCHANGED <<leaves_table, leave_seq, invoices_table, invoice_seq, frames,
                   settings_table, container, container_calls>>

ConverterNext ==
    \/ CreateConverter
    \/ Convert
    \/ Return

ConverterSpec == Init /\ [][ConverterNext]_vars

(***************************************************************************)
(* Request threads inside create_invoice, one statement at a time, in any  *)
(* interleaving.                                                           *)
(***************************************************************************)
thread_unchanged == <<call, result, leaves_table, leave_seq, invoices_table,
                      invoice_seq, files, pdf_converter, settings_table,
                      container, container_calls>>

ThreadCall(t) ==
    /\ frames[t].pc = "idle"
    /\ \E input_data \in ThreadInputs, currency \in InvoiceCurrencies :
        frames' = [frames EXCEPT ![t] =
                      [IdleFrame EXCEPT !.pc = "period", !.passed = input_data,
                                        !.input_data = input_data,
                                        !.currency = currency]]
    /\ UNCHANGED thread_unchanged

ThreadPeriod(t) ==
    /\ frames[t].pc = "period"
    /\ frames' = [frames EXCEPT ![t] = frame_after_period(frames[t])]
    /\ UNCHANGED thread_unchanged

ThreadDaysWorked(t) ==
    /\ frames[t].pc = "days_worked"
    /\ frames' = [frames EXCEPT ![t] = frame_after_days_worked(frames[t])]
    /\ UNCHANGED thread_unchanged

ThreadAmount(t) ==
    /\ frames[t].pc = "amount"
    /\ frames' = [frames EXCEPT ![t] = frame_after_amount(frames[t],
                                         days_worked_local(frames, t))]
    /\ UNCHANGED thread_unchanged

ThreadAmountWords(t) ==
    /\ frames[t].pc = "amount_words"
    /\ frames' = [frames EXCEPT ![t] = frame_after_amount_words(frames[t])]
    /\ UNCHANGED thread_unchanged

ThreadReturn(t) ==
    /\ frames[t].pc = "return"
    /\ frames' = [frames EXCEPT ![t] = frame_after_return(frames[t])]
    /\ UNCHANGED thread_unchanged

\* The caller has taken the Invoice: the frame is gone.
ThreadDone(t) ==
    /\ frames[t].pc = "returned"
    /\ frames' = [frames EXCEPT ![t] = IdleFrame]
    /\ UNCHANGED thread_unchanged

ThreadNext ==
    \E t \in Threads :
        \/ ThreadCall(t)
        \/ ThreadPeriod(t)
        \/ ThreadDaysWorked(t)
        \/ ThreadAmount(t)
        \/ ThreadAmountWords(t)
        \/ ThreadReturn(t)
        \/ ThreadDone(t)

ThreadSpec == Init /\ [][ThreadNext]_vars

(***************************************************************************)
(* The invoice routes, on the use cases of the container.                  *)
(***************************************************************************)
GenerateRoute ==
    /\ call.op = "none"
    /\ invoice_seq < MaxInvoices
    /\ \E body \in Bodies, settings \in GenerateSettings, env \in GenerateEnvs :
        LET route == generate_route(body, settings, env, files)
        IN  /\ call' = [op |-> "generate_route", body |-> body,
                        settings |-> settings, env |-> env]
            /\ result' = route.answer
            /\ IF route.done = None
               THEN UNCHANGED <<files, invoices_table, invoice_seq>>
               ELSE /\ files' = route.done[1].files
                    /\ IF route.done[1].saved # None
                       THEN /\ invoices_table' = invoices_table \cup
                                  {invoice_row(invoice_seq + 1,
                                               route.done[1].response.invoice[1],
                                               route.done[1].saved[1].docx_path,
                                               route.done[1].saved[1].pdf_path)}
                            /\ invoice_seq' = invoice_seq + 1
                       ELSE UNCHANGED <<invoices_table, invoice_seq>>
    /\ UNCHANGED <<leaves_table, leave_seq, pdf_converter, frames,
                   settings_table, container, container_calls>>

PreviewRoute ==
    /\ call.op = "none"
    /\ \E body \in Bodies, settings \in SettingsValues, fault \in SettingsFaults :
        /\ call' = [op |-> "preview_route", body |-> body,
                    settings |-> settings, fault |-> fault]
        /\ result' = preview_route(body, settings, fault).answer
    /\ UNCHANGED app_vars

RouteNext ==
    \/ GenerateRoute
    \/ PreviewRoute
    \/ Return

RouteSpec == Init /\ [][RouteNext]_vars

(***************************************************************************)
(* ManageSettingsUseCase on the settings table.                            *)
(***************************************************************************)
settings_unchanged ==
    <<leaves_table, leave_seq, invoices_table, invoice_seq, files,
      pdf_converter, frames, container, container_calls>>

GetSettings ==
    /\ call.op = "none"
    /\ \E fault \in SettingsFaults :
        /\ call' = [op |-> "get_settings", fault |-> fault]
        /\ result' = get_settings(settings_table, fault)
    /\ UNCHANGED settings_table
    /\ UNCHANGED settings_unchanged

SaveSettings ==
    /\ call.op = "none"
    /\ \E data \in SettingsData, fault \in SettingsFaults :
        LET done == save_settings(settings_table, data, fault)
        IN  /\ call' = [op |-> "save_settings", data |-> data, fault |-> fault]
            /\ result' = [raised |-> done.raised, response |-> done.response]
            /\ settings_table' = done.table
    /\ UNCHANGED settings_unchanged

IsSetupComplete ==
    /\ call.op = "none"
    /\ \E fault \in SettingsFaults :
        /\ call' = [op |-> "is_setup_complete", fault |-> fault]
        /\ result' = is_setup_complete(settings_table, fault)
    /\ UNCHANGED settings_table
    /\ UNCHANGED settings_unchanged

GetConfig ==
    /\ call.op = "none"
    /\ \E fault \in SettingsFaults :
        /\ call' = [op |-> "get_config", fault |-> fault]
        /\ result' = get_config(settings_table, fault)
    /\ UNCHANGED settings_table
    /\ UNCHANGED settings_unchanged

SettingsNext ==
    \/ GetSettings
    \/ SaveSettings
    \/ IsSetupComplete
    \/ GetConfig
    \/ Return

SettingsSpec == Init /\ [][SettingsNext]_vars

(***************************************************************************)
(* The invoice records: generated by the use case, deleted and numbered by *)
(* the repository.                                                         *)
(***************************************************************************)
GenerateRecord == Generate(RecordRequests, RecordEnvs, MaxRecords)

DeleteInvoice ==
    /\ call.op = "none"
    /\ \E invoice_id \in 1..MaxRecords :
        /\ call' = [op |-> "delete", invoice_id |-> invoice_id]
        /\ result' = [deleted |-> \E r \in invoices_table : r.id = invoice_id]
        /\ invoices_table' = delete_invoice(invoices_table, invoice_id)
    /\ UNCHANGED <<leaves_table, leave_seq, invoice_seq, files, pdf_converter,
                   frames, settings_table, container, container_calls>>

GetNextNumber ==
    /\ call.op = "none"
    /\ call' = [op |-> "get_next_number"]
    /\ result' = [next_number |-> get_next_number(invoices_table)]
    /\ UNCHANGED app_vars

RecordsNext ==
    \/ GenerateRecord
    \/ DeleteInvoice
    \/ GetNextNumber
    \/ Return

RecordsSpec == Init /\ [][RecordsNext]_vars

(***************************************************************************)
(* get_container, statement by statement, as the request threads run it,   *)
(* and reset_container.                                                    *)
(***************************************************************************)
container_unchanged ==
    <<call, result, leaves_table, leave_seq, invoices_table, invoice_seq, files,
      pdf_converter, frames, settings_table>>

\* a thread calls get_container()
GetCall(t) ==
    /\ container_calls[t].pc \in {"idle", "done"}
    /\ container_calls' = [container_calls EXCEPT ![t] = [IdleGet EXCEPT !.pc = "check"]]
    /\ UNCHANGED container
    /\ UNCHANGED container_unchanged

\* if _container is None:
GetCheck(t) ==
    /\ container_calls[t].pc = "check"
    /\ container_calls' =
           [container_calls EXCEPT ![t].pc = get_branch(container.instance)]
    /\ UNCHANGED container
    /\ UNCHANGED container_unchanged

\* create_container(), the right-hand side of the assignment
GetCreate(t) ==
    /\ container_calls[t].pc = "create"
    /\ container' = create_container(container)
    /\ container_calls' = [container_calls EXCEPT ![t].pc = "assign",
                                                  ![t].made = Some(container.built + 1)]
    /\ UNCHANGED container_unchanged

\* _container = ...
GetAssign(t) ==
    /\ container_calls[t].pc = "assign"
    /\ container' = [container EXCEPT !.instance = container_calls[t].made]
    /\ container_calls' = [container_calls EXCEPT ![t].pc = "return"]
    /\ UNCHANGED container_unchanged

\* return _container
GetReturn(t) ==
    /\ container_calls[t].pc = "return"
    /\ container_calls' = [container_calls EXCEPT ![t].pc = "done",
                                                  ![t].returned = Some(container.instance)]
    /\ UNCHANGED container
    /\ UNCHANGED container_unchanged

ResetContainer ==
    /\ container.resets < MaxResets
    /\ container' = reset_container(container)
    /\ container_calls' =
           [t \in Threads |-> [container_calls[t] EXCEPT !.reset_seen = TRUE]]
    /\ UNCHANGED container_unchanged

ContainerNext ==
    \/ \E t \in Threads :
        \/ GetCall(t)
        \/ GetCheck(t)
        \/ GetCreate(t)
        \/ GetAssign(t)
        \/ GetReturn(t)
    \/ ResetContainer

ContainerSpec == Init /\ [][ContainerNext]_vars

(***************************************************************************)
(* Properties of WorkingDaysCalculator                                     *)
(***************************************************************************)
\* The positions of the supplied leaves whose date is Monday..Friday.
WeekdayPositions(leaves) ==
    {i \in DOMAIN leaves : Weekday(leaves[i].leave_date) \in 0..4}

\* The positions of the supplied leaves that are Monday..Friday and lie in
\* [start_date, end_date], both ends included, by day number.
InRangePositions(start_date, end_date, leaves) ==
    {i \in WeekdayPositions(leaves) :
        /\ ToOrdinal(start_date) <= ToOrdinal(leaves[i].leave_date)
        /\ ToOrdinal(leaves[i].leave_date) <= ToOrdinal(end_date)}

\* The list without its i-th element.
Without(seq, i) ==
    [j \in 1..(Len(seq) - 1) |-> IF j < i THEN seq[j] ELSE seq[j + 1]]

\* C1: calculate returns total_weekdays = calculate_weekdays(year, month),
\* leaves = the number of supplied leaves dated Monday..Friday and
\* working_days = total_weekdays - leaves; a list of weekend leaves only gives
\* leaves = 0 and working_days = total_weekdays.
C1_CalculateCountsWeekdayLeaves ==
    call.op = "calculate" =>
        /\ result.total_weekdays = calculate_weekdays(call.year, call.month)
        /\ result.leaves = Cardinality(WeekdayPositions(call.leaves))
        /\ result.working_days = result.total_weekdays - result.leaves
        /\ (\A i \in DOMAIN call.leaves : Weekday(call.leaves[i].leave_date) \in {5, 6})
              => result.leaves = 0 /\ result.working_days = result.total_weekdays

\* A call with one Saturday leave and one weekday leave: only one is counted.
C1_Witness ==
    /\ call.op = "calculate"
    /\ Len(call.leaves) = 2
    /\ Weekday(call.leaves[1].leave_date) = 5
    /\ Weekday(call.leaves[2].leave_date) < 5
    /\ result.leaves = 1
    /\ result.working_days = result.total_weekdays - 1

\* C2: calculate_for_range reduces working_days by exactly the supplied leaves
\* dated Monday..Friday with start <= date <= end; a leave before start, after
\* end or on a weekend changes neither leaves nor working_days.
C2_RangeCountsLeavesInRange ==
    call.op = "calculate_for_range" =>
        LET counted == InRangePositions(call.start_date, call.end_date, call.leaves)
        IN  /\ result.leaves = Cardinality(counted)
            /\ result.working_days =
                   calculate_weekdays_for_range(call.start_date, call.end_date)
                       - Cardinality(counted)
            /\ \A i \in DOMAIN call.leaves : i \notin counted =>
                   LET other == calculate_for_range(call.start_date, call.end_date,
                                                    Without(call.leaves, i))
                   IN  /\ other.leaves = result.leaves
                       /\ other.working_days = result.working_days

\* A range with a weekday leave before its start and a weekday leave on its
\* last day: the second one is counted, the first is not.
C2_Witness ==
    /\ call.op = "calculate_for_range"
    /\ Len(call.leaves) = 2
    /\ Weekday(call.leaves[1].leave_date) < 5
    /\ DateLT(call.leaves[1].leave_date, call.start_date)
    /\ Weekday(call.leaves[2].leave_date) < 5
    /\ call.leaves[2].leave_date = call.end_date
    /\ DateLT(call.start_date, call.end_date)
    /\ result.leaves = 1

\* C3: working_days returned by calculate is the number of Monday..Friday days
\* of the month on which no supplied leave falls, and
\* 0 <= working_days <= total_weekdays, whatever the list of leaves holds.
C3_WorkingDaysAreLeaveFreeWeekdays ==
    call.op = "calculate" =>
        /\ result.working_days =
               Cardinality({d \in 1..DaysInMonth(call.year, call.month) :
                   /\ Weekday(<<call.year, call.month, d>>) < 5
                   /\ \A i \in DOMAIN call.leaves :
                          call.leaves[i].leave_date # <<call.year, call.month, d>>})
        /\ 0 <= result.working_days
        /\ result.working_days <= result.total_weekdays

\* C4: calculate_weekdays(year, month) is the number of days d of the month
\* whose weekday is Monday..Friday, February having 29 days exactly in leap
\* years; it is 23 for 2025-01, 20 for 2025-02, 21 for 2024-02, 22 for 2025-04
\* and 23 for 2025-12.
C4_WeekdaysOfMonth ==
    call.op = "calculate_weekdays" =>
        LET ym == <<call.year, call.month>>
            leap == call.year % 4 = 0 /\ (call.year % 100 # 0 \/ call.year % 400 = 0)
            length == CASE call.month = 2 -> IF leap THEN 29 ELSE 28
                        [] call.month \in {4, 6, 9, 11} -> 30
                        [] OTHER -> 31
        IN  /\ result.weekdays = Cardinality({d \in 1..length :
                                        Weekday(<<call.year, call.month, d>>) \in 0..4})
            /\ ym = <<2025, 1>> => result.weekdays = 23
            /\ ym = <<2025, 2>> => result.weekdays = 20
            /\ ym = <<2024, 2>> => result.weekdays = 21
            /\ ym = <<2025, 4>> => result.weekdays = 22
            /\ ym = <<2025, 12>> => result.weekdays = 23

\* February of the leap year 2024 has 21 weekdays.
C4_Witness ==
    /\ call.op = "calculate_weekdays"
    /\ call.year = 2024
    /\ call.month = 2
    /\ result.weekdays = 21

\* C5: calculate_weekdays(year, month) equals calculate_weekdays_for_range
\* over the first..last day of that month.
C5_MonthMatchesRange ==
    /\ call.op = "calculate_weekdays" =>
           result.weekdays = calculate_weekdays_for_range(
                        <<call.year, call.month, 1>>,
                        <<call.year, call.month, DaysInMonth(call.year, call.month)>>)
    /\ (/\ call.op = "calculate_weekdays_for_range"
        /\ call.start_date[3] = 1
        /\ call.end_date = <<call.start_date[1], call.start_date[2],
                             DaysInMonth(call.start_date[1], call.start_date[2])>>)
           => result.weekdays = calculate_weekdays(call.start_date[1], call.start_date[2])

\* The range 2025-01-01 .. 2025-01-31, whose last day is a Friday, has the 23
\* weekdays of January 2025.
C5_Witness ==
    /\ call.op = "calculate_weekdays_for_range"
    /\ call.start_date = <<2025, 1, 1>>
    /\ call.end_date = <<2025, 1, 31>>
    /\ Weekday(call.end_date) = 4
    /\ result.weekdays = 23

\* C6: get_service_period returns the first and the last day of the reference
\* date's own month, the last day from the month's real length (29 February in
\* leap years, else 28); so start <= reference <= end, and every date of the
\* same month gives the same pair.
C6_ServicePeriod ==
    call.op = "get_service_period" =>
        LET ref == call.reference_date
            leap == ref[1] % 4 = 0 /\ (ref[1] % 100 # 0 \/ ref[1] % 400 = 0)
            length == CASE ref[2] = 2 -> IF leap THEN 29 ELSE 28
                        [] ref[2] \in {4, 6, 9, 11} -> 30
                        [] OTHER -> 31
        IN  /\ result.period = << <<ref[1], ref[2], 1>>, <<ref[1], ref[2], length>> >>
            /\ ToOrdinal(result.period[1]) <= ToOrdinal(ref)
            /\ ToOrdinal(ref) <= ToOrdinal(result.period[2])
            /\ \A d \in 1..length : get_service_period(<<ref[1], ref[2], d>>) = result.period

\* 2024-02-10 lies in a leap February: the period ends on 2024-02-29.
C6_Witness ==
    /\ call.op = "get_service_period"
    /\ call.reference_date = <<2024, 2, 10>>
    /\ result.period = << <<2024, 2, 1>>, <<2024, 2, 29>> >>

(***************************************************************************)
(* Properties of InvoiceCalculator and AmountFormatter                     *)
(***************************************************************************)

\* C7: create_invoice sets amount to days_worked * rate rounded to two
\* decimal places (a whole number of cents, at most half a cent from the
\* product) and total_payable to the same value as amount.
C7_AmountRoundedAndPayable ==
    call.op = "create_invoice" =>
        LET exact == (call.input_data.total_working_days - call.input_data.leaves_taken)
                         * call.input_data.rate
        IN  /\ result.amount % 10 = 0
            /\ Abs(result.amount - exact) <= 5
            /\ result.total_payable = result.amount

\* 21 days at 100.333 a day: 2106.993 is rounded to 2106.99.
C7_Witness ==
    /\ call.op = "create_invoice"
    /\ call.input_data.total_working_days = 23
    /\ call.input_data.leaves_taken = 2
    /\ call.input_data.rate = 100333
    /\ result.amount = 2106990
    /\ result.total_payable = 2106990

\* C8 as claimed: days_worked = total_working_days - leaves_taken, unclamped;
\* with leaves_taken > total_working_days the result has a negative
\* days_worked and a negative amount; with both equal, days_worked and amount
\* are 0.
C8_NegativeDaysNegativeAmount ==
    call.op = "create_invoice" =>
        /\ result.days_worked =
               call.input_data.total_working_days - call.input_data.leaves_taken
        /\ call.input_data.leaves_taken > call.input_data.total_working_days
              => result.days_worked < 0 /\ result.amount < 0
        /\ call.input_data.leaves_taken = call.input_data.total_working_days
              => result.days_worked = 0 /\ result.amount = 0

\* C8 as amended: days_worked = total_working_days - leaves_taken, unclamped;
\* with leaves_taken > total_working_days the result has a negative
\* days_worked, and its amount is negative when the rate is at least 0.01 and
\* 0 when the rate is 0; with both equal, days_worked and amount are 0.
C8_NegativeDaysUnclamped ==
    call.op = "create_invoice" =>
        /\ result.days_worked =
               call.input_data.total_working_days - call.input_data.leaves_taken
        /\ call.input_data.leaves_taken > call.input_data.total_working_days
              => /\ result.days_worked < 0
                 /\ call.input_data.rate >= 10 => result.amount < 0
                 /\ call.input_data.rate = 0 => result.amount = 0
        /\ call.input_data.leaves_taken = call.input_data.total_working_days
              => result.days_worked = 0 /\ result.amount = 0

\* One leave more than working days, at 100.00 a day: the invoice is made,
\* for minus 100.00.
C8_Witness ==
    /\ call.op = "create_invoice"
    /\ call.input_data.total_working_days = 2
    /\ call.input_data.leaves_taken = 3
    /\ call.input_data.rate = 100000
    /\ call.currency = "EUR"
    /\ result.days_worked = -1
    /\ result.amount = -100000
    /\ result.amount_in_words = "Minus One Hundred Euros"

\* C9: to_words splits every amount, the negative ones included, into
\* whole = floor(amount) and cents = round((amount - whole) * 100); for an
\* amount of at most two decimals whole + cents/100 is the amount and
\* 0 <= cents <= 99.
C9_WholeIsFloorCentsInRange ==
    call.op = "to_words" =>
        /\ result.whole = call.amount \div 1000
        /\ result.cents = RoundHalfEven(call.amount - result.whole * 1000, 10)
        /\ call.amount % 10 = 0 =>
              /\ result.whole * 1000 + result.cents * 10 = call.amount
              /\ 0 <= result.cents
              /\ result.cents <= 99

\* C10: to_words returns '<whole in words> <currency name>' when cents = 0
\* ('Zero <currency name>' for the amount 0) and '<whole in words> <currency
\* name> and <cents in words> Cents' when cents > 0; the cents clause is there
\* if and only if the amount has a non-zero cents part.
C10_CentsClauseIffCents ==
    call.op = "to_words" =>
        LET name == currency_name(call.currency)
            base == Num2Words(result.whole) \o " " \o name
        IN  /\ result.cents = 0 => result.text = base
            /\ result.cents > 0 =>
                  result.text = base \o " and " \o Num2Words(result.cents) \o " Cents"
            /\ call.amount = 0 => result.text = "Zero " \o name
            /\ call.amount % 10 = 0 =>
                  ((result.text # base) <=> (call.amount % 1000 # 0))

\* The unit tests' amounts, in words.
ToWordsExamples ==
    /\ to_words(100000, "EUR") = "One Hundred Euros"
    /\ to_words(100500, "EUR") = "One Hundred Euros and Fifty Cents"
    /\ to_words(6194600, "EUR")
           = "Six Thousand, One Hundred And Ninety-Four Euros and Sixty Cents"
    /\ to_words(0, "eur") = "Zero Euros"
    /\ to_words(100010, "XYZ") = "One Hundred XYZ and One Cents"
    /\ to_words(100550, "USD") = "One Hundred Dollars and Fifty-Five Cents"
    /\ to_words(1001000, "INR") = "One Thousand And One Rupees"
    /\ isoformat(<<2025, 1, 6>>) = "2025-01-06"

(***************************************************************************)
(* C11: the leave_dates of the Invoice returned by create_invoice holds    *)
(* exactly the input leave_dates in ascending chronological order: the     *)
(* same length, every date as many times as in the input (duplicates are   *)
(* kept), whatever the input order.                                        *)
(***************************************************************************)
CountOf(seq, d) == Cardinality({i \in DOMAIN seq : seq[i] = d})

C11_LeaveDatesSortedPermutation ==
    call.op = "create_invoice" =>
        LET given == call.input_data.leave_dates
            kept == result.leave_dates
        IN  /\ Len(kept) = Len(given)
            /\ \A i \in 1..(Len(kept) - 1) : DateLE(kept[i], kept[i + 1])
            /\ \A d \in InvoiceLeaveDates : CountOf(kept, d) = CountOf(given, d)
            /\ \A i \in DOMAIN kept : kept[i] \in InvoiceLeaveDates

\* An input given latest-first comes back earliest-first.
C11_Witness ==
    /\ call.op = "create_invoice"
    /\ call.input_data.leave_dates = << <<2025, 1, 7>>, <<2025, 1, 6>> >>
    /\ result.leave_dates = << <<2025, 1, 6>>, <<2025, 1, 7>> >>

(***************************************************************************)
(* C12: in the result of calculate and of calculate_for_range, leave_dates *)
(* holds one ISO date string per supplied leave, in input order, weekend   *)
(* leaves and leaves outside the range included, so that its length is the *)
(* number of supplied leaves and at least the count in leaves.             *)
(***************************************************************************)
C12_LeaveDatesListEverySuppliedLeave ==
    call.op \in {"calculate", "calculate_for_range"} =>
        /\ Len(result.leave_dates) = Len(call.leaves)
        /\ \A i \in DOMAIN call.leaves :
            result.leave_dates[i] = isoformat(call.leaves[i].leave_date)
        /\ Len(result.leave_dates) >= result.leaves

\* A one-day range (Thursday 2025-01-30) with a Saturday leave and a Monday
\* leave, both after the range: both are listed, none is counted.
C12_Witness ==
    /\ call.op = "calculate_for_range"
    /\ call.start_date = <<2025, 1, 30>>
    /\ call.end_date = <<2025, 1, 30>>
    /\ result.leave_dates = <<"2025-02-01", "2025-02-03">>
    /\ result.leaves = 0

(***************************************************************************)
(* Properties of the use cases                                             *)
(***************************************************************************)

\* C14: GetWorkingDaysUseCase.execute, execute_for_range and
\* PreviewInvoiceUseCase.execute always return a response; when the
\* repository raises, or the calculator does (a month outside 1..12), the
\* response has success = False, the exception's message as error, and every
\* other field at its default.
C14_FailuresBecomeResponses ==
    LET working_days_failure(e) ==
            [success |-> FALSE, total_weekdays |-> 0, leaves |-> 0,
             working_days |-> 0, leave_dates |-> None, error |-> Some(e)]
        preview_failure(e) ==
            [success |-> FALSE, service_period |-> None, days_worked |-> None,
             amount |-> None, total_payable |-> None, amount_in_words |-> None,
             error |-> Some(e)]
    IN  /\ call.op \in {"get_working_days", "get_working_days_for_range",
                        "preview_invoice"} =>
              /\ result.success \in BOOLEAN
              /\ call.fault = None \/ result.success = FALSE
        /\ call.op \in {"get_working_days", "get_working_days_for_range"}
             /\ call.fault # None =>
              result = working_days_failure(call.fault[1])
        /\ call.op = "get_working_days" /\ call.fault = None
             /\ call.year # 0 /\ call.month = 13 =>
              result = working_days_failure("bad month number 13; must be 1-12")
        /\ call.op = "preview_invoice" /\ call.fault # None =>
              result = preview_failure(call.fault[1])

\* The leave repository raises while the month's leaves are read.
C14_Witness ==
    /\ call.op = "get_working_days"
    /\ call.fault = Some("Database error")
    /\ leaves_table # {}
    /\ result.success = FALSE
    /\ result.error = Some("Database error")

\* the days of a month, and the days from start to end
MonthDays(year, month) == {<<year, month, d>> : d \in 1..DaysInMonth(year, month)}
RangeDays(start_date, end_date) ==
    {d \in AllDates : DateLE(start_date, d) /\ DateLE(d, end_date)}
\* the Monday..Friday days among days that no stored leave is on
FreeWeekdays(days) ==
    Cardinality({d \in days : /\ Weekday(d) < 5
                              /\ \A r \in leaves_table : r.leave_date # d})

\* C17: whatever leaves were added and removed, execute(year, month) returns
\* as working_days the number of Monday..Friday days of the month that no
\* stored leave is on, between 0 and total_weekdays; execute_for_range does
\* the same for the days from start to end.
C17_WorkingDaysAreFreeWeekdays ==
    /\ call.op = "get_working_days" /\ result.success =>
          LET y == IF call.year = 0 \/ call.month = 0 THEN call.now[1] ELSE call.year
              m == IF call.year = 0 \/ call.month = 0 THEN call.now[2] ELSE call.month
          IN  /\ result.working_days = FreeWeekdays(MonthDays(y, m))
              /\ 0 <= result.working_days
              /\ result.working_days <= result.total_weekdays
    /\ call.op = "get_working_days_for_range" /\ result.success =>
          /\ result.working_days
                 = FreeWeekdays(RangeDays(call.start_date, call.end_date))
          /\ 0 <= result.working_days
          /\ result.working_days <= result.total_weekdays

\* January 2025 asked for after three adds of which one row is left, on
\* Friday the 31st: 22 of the 23 weekdays are working days.
C17_Witness ==
    /\ call.op = "get_working_days"
    /\ call.year = 2025 /\ call.month = 1
    /\ leave_seq = 3
    /\ Cardinality(leaves_table) = 1
    /\ \E r \in leaves_table : r.leave_date = <<2025, 1, 31>>
    /\ result.success
    /\ result.working_days = 22

\* C13: PreviewInvoiceUseCase.execute and GenerateInvoiceUseCase.execute
\* bill with the request's rate whenever the request has one, 0 included,
\* and with settings.daily_rate exactly when the request's rate is None.
C13_RequestRateUnlessNone ==
    LET expected == IF call.request.rate = None THEN call.settings.daily_rate
                    ELSE call.request.rate[1]
        days == call.request.total_working_days - call.request.leaves_taken
    IN  /\ call.op = "preview_invoice" /\ result.success =>
              result.amount = Some(Format2f(calculate_amount(days, expected)))
        /\ call.op = "generate_invoice" /\ result.success =>
              /\ result.invoice[1].rate = expected
              /\ result.invoice[1].amount = calculate_amount(days, expected)

\* An invoice generated at the request's rate of 0 although the settings
\* have a rate of 75.
C13_Witness ==
    /\ call.op = "generate_invoice"
    /\ call.request.rate = Some(0)
    /\ call.settings.daily_rate = 75000
    /\ result.success
    /\ result.invoice[1].rate = 0
    /\ result.invoice[1].amount = 0

\* the DOCX and the PDF of the invoice the pending generate call is about
DocxOfCall ==
    [stem |-> client_of(call.settings) \o " Invoice - "
                  \o ToString(call.request.invoice_number) \o " - "
                  \o MonthName(call.request.invoice_date[2]) \o " "
                  \o ToString(call.request.invoice_date[1]),
     suffix |-> ".docx"]
PdfOfCall == [DocxOfCall EXCEPT !.suffix = ".pdf"]
\* the rows the pending generate call saved
RowsOfCall == {r \in invoices_table : r.id > call.rows_before}

\* C18 as claimed: with output_format 'pdf' the DOCX is generated first and
\* is deleted if and only if the PDF was produced; then the record has
\* docx_path '' and the PDF's path and the response has no docx_filename,
\* and otherwise the call succeeds with pdf_error set, keeps and reports the
\* DOCX and saves the record with pdf_path None.
C18_DocxDeletedIffPdfProduced ==
    call.op = "generate_invoice" /\ Lower(call.request.output_format) = "pdf"
      /\ call.env.settings_fault = None /\ call.env.generate_fault = None =>
        /\ DocxOfCall \in call.written
        /\ (DocxOfCall \notin files) <=> (PdfOfCall \in call.written)
        /\ result.success /\ PdfOfCall \in call.written =>
              /\ result.docx_filename = None
              /\ \A r \in RowsOfCall :
                    r.docx_path = "" /\ r.pdf_path = Some("/output/" \o name_of(PdfOfCall))
        /\ call.env.save_fault = None /\ PdfOfCall \notin call.written =>
              /\ result.success
              /\ result.pdf_error # None
              /\ DocxOfCall \in files
              /\ result.docx_filename = Some(name_of(DocxOfCall))
              /\ \A r \in RowsOfCall : r.pdf_path = None

\* C18, amended: the DOCX is deleted if and only if the PDF was produced and
\* docx_path.unlink() did not raise.  When the deletion raises, the call
\* succeeds without pdf_error, both files are on disk, the record has both
\* paths and the response names both files.
C18_DocxDeletedIffPdfProducedAndUnlinked ==
    call.op = "generate_invoice" /\ Lower(call.request.output_format) = "pdf"
      /\ call.env.settings_fault = None /\ call.env.generate_fault = None =>
        LET produced == PdfOfCall \in call.written
            unlinked == produced /\ ~call.env.unlink_fault
        IN  /\ DocxOfCall \in call.written
            /\ (DocxOfCall \notin files) <=> unlinked
            /\ produced => PdfOfCall \in files
            /\ call.env.save_fault = None =>
                  /\ result.success
                  /\ Cardinality(RowsOfCall) = 1
                  /\ (result.pdf_error = None) <=> produced
                  /\ (result.docx_filename = None) <=> unlinked
                  /\ ~unlinked => result.docx_filename = Some(name_of(DocxOfCall))
                  /\ \A r \in RowsOfCall :
                        /\ r.docx_path = IF unlinked THEN ""
                                         ELSE "/output/" \o name_of(DocxOfCall)
                        /\ r.pdf_path = IF produced
                                        THEN Some("/output/" \o name_of(PdfOfCall))
                                        ELSE None

\* The PDF is produced and deleting the DOCX raises: both files stay and the
\* record has both paths.
C18_Witness ==
    /\ call.op = "generate_invoice"
    /\ call.request.output_format = "pdf"
    /\ call.env.unlink_fault
    /\ result.success
    /\ {DocxOfCall, PdfOfCall} \subseteq files
    /\ \E r \in RowsOfCall : r.docx_path # "" /\ r.pdf_path # None

\* C19: whenever GenerateInvoiceUseCase.execute returns success = False, the
\* call saved no record and no file the call wrote is on disk.
C19_FailureLeavesNothing ==
    call.op = "generate_invoice" /\ result.success = FALSE =>
        /\ RowsOfCall = {}
        /\ call.written \cap files = {}

\* C20: whatever the output_format, when GenerateInvoiceUseCase.execute
\* returns success = True the record it saved has a docx_path that is not
\* empty or a pdf_path that is not null, and the response names the files
\* the record has.
C20_SuccessReferencesDocument ==
    call.op = "generate_invoice" /\ result.success =>
        /\ Cardinality(RowsOfCall) = 1
        /\ \A r \in RowsOfCall :
              /\ r.docx_path # "" \/ r.pdf_path # None
              /\ IF r.docx_path = "" THEN result.docx_filename = None
                 ELSE /\ result.docx_filename # None
                      /\ r.docx_path = "/output/" \o result.docx_filename[1]
              /\ IF r.pdf_path = None THEN result.pdf_filename = None
                 ELSE /\ result.pdf_filename # None
                      /\ r.pdf_path = Some("/output/" \o result.pdf_filename[1])

\* C15: PDFConverter.convert returns the PDF's path on success and None on
\* failure: CrossPlatformPDFConverter.convert raises nothing, and returns
\* None when no strategy is available or every available strategy fails.
C15_ConvertReturnsNoneOnFailure ==
    call.op = "convert" =>
        LET succeeds == \E i \in DOMAIN call.available :
                            call.outcomes[call.available[i]] = "file"
        IN  /\ result.raised = None
            /\ succeeds => result.returned = Some(with_suffix(call.source_path, ".pdf"))
            /\ ~succeeds => result.returned = None

AvailableNow == SelectSeq(call.strategies, LAMBDA name : name \in call.installed)

\* the position of the first strategy of seq that succeeds in the call, or
\* Len(seq) + 1 when none does
FirstSuccess(seq) ==
    IF \E i \in DOMAIN seq : call.outcomes[seq[i]] = "file"
    THEN CHOOSE i \in DOMAIN seq :
             /\ call.outcomes[seq[i]] = "file"
             /\ \A j \in 1..(i - 1) : call.outcomes[seq[j]] # "file"
    ELSE Len(seq) + 1

\* C21: convert tries only the strategies whose is_available() is true, in
\* their configured order; it returns the output path at the first one that
\* succeeds and invokes none after it; when all of them fail it raises an
\* error whose message has one entry per strategy tried, in order.
C21_AvailableStrategiesInOrder ==
    call.op = "convert" =>
        LET now == AvailableNow
            k == FirstSuccess(now)
        IN  /\ \A i \in DOMAIN call.invoked : call.invoked[i] \in call.installed
            /\ IF k <= Len(now)
               THEN /\ call.invoked = SubSeq(now, 1, k)
                    /\ result.returned = Some(with_suffix(call.source_path, ".pdf"))
               ELSE /\ call.invoked = now
                    /\ result.raised # None
                    /\ now # <<>> =>
                         result.raised =
                           Some("PDF conversion failed. Tried: " \o
                                JoinErrors([i \in DOMAIN now |->
                                    error_entry(now[i], call.outcomes[now[i]])]))

\* A body with valid invoice_number, invoice_date, validity_year and
\* total_working_days, and valid dates where it gives the optional ones.
ValidBody(body) == body_error(body) = None

\* C22: for a body with valid invoice_number, invoice_date, validity_year
\* and total_working_days, POST /generate answers success true whenever
\* GenerateInvoiceUseCase.execute succeeds on the request the body makes,
\* and POST /preview whenever PreviewInvoiceUseCase.execute does.
C22_RoutesAnswerUseCaseSuccess ==
    /\ (call.op = "generate_route" /\ ValidBody(call.body)) =>
          LET request == GenerateInvoiceRequest(request_of_body(call.body),
                                                output_format_of_body(call.body))
          IN  generate_execute(request, call.settings, call.env, {}).response.success
                  => result.success
    /\ (call.op = "preview_route" /\ ValidBody(call.body)) =>
          (preview_execute(request_of_body(call.body), call.settings,
                           call.fault).success
              => result.success)

\* C23: every public method of the use-case layer turns a failure of the
\* core or of a repository into a returned failure value and raises
\* nothing; for ManageSettingsUseCase that is get_settings, save_settings,
\* is_setup_complete and get_config.
C23_UseCasesRaiseNothing ==
    call.op \in {"get_settings", "save_settings", "is_setup_complete", "get_config"}
        => result.raised = None

\* C24: after any sequence of add / remove / remove_by_date the leave store
\* holds at most one leave per date; an add on a date that already has a
\* leave adds no second one and leaves exactly one leave of that date, with
\* the new reason, and the leaves of the other dates are as they were.
C24_OneLeavePerDate ==
    /\ [](\A r \in leaves_table : \A o \in leaves_table :
              r.leave_date = o.leave_date => r = o)
    /\ [][(call.op = "none" /\ call'.op = "add_leave" /\ call'.fault = None) =>
            LET of_date(table) == {r \in table : r.leave_date = call'.leave_date}
            IN  /\ Cardinality(of_date(leaves_table')) = 1
                /\ \A r \in of_date(leaves_table') : r.reason = call'.reason
                /\ leaves_table' \ of_date(leaves_table')
                       = leaves_table \ of_date(leaves_table)
                /\ of_date(leaves_table) # {} =>
                       Cardinality(leaves_table') = Cardinality(leaves_table)]_vars

\* an add has replaced the leave of 2025-01-31 and kept that of 2025-02-03
C24_Witness ==
    /\ call.op = "add_leave"
    /\ call.fault = None
    /\ leaves_table = {Leave(2, <<2025, 2, 3>>, ""), Leave(3, <<2025, 1, 31>>, "Sick")}

\* C25: after any sequence of saves and deletes, get_next_number returns the
\* greatest stored invoice_number plus 1, and 1 when no invoice is stored;
\* no stored record has the returned number.
C25_NextNumberIsMaxPlusOne ==
    call.op = "get_next_number" =>
        /\ invoices_table = {} => result.next_number = 1
        /\ invoices_table # {} =>
              /\ \E r \in invoices_table : result.next_number = r.invoice_number + 1
              /\ \A r \in invoices_table : result.next_number > r.invoice_number
        /\ \A r \in invoices_table : r.invoice_number # result.next_number

\* two records were saved, one was deleted, and the record left has the
\* number 0, which MAX returns as a falsy value
C25_Witness ==
    /\ call.op = "get_next_number"
    /\ invoice_seq = 2
    /\ Cardinality(invoices_table) = 1
    /\ \A r \in invoices_table : r.invoice_number = 0
    /\ result.next_number = 1

\* C26: after any sequence of invoice generations and deletions no two
\* stored invoice records have the same invoice_number.
C26_InvoiceNumbersUnique ==
    \A r \in invoices_table : \A o \in invoices_table :
        r.invoice_number = o.invoice_number => r = o

\* The threads whose get_container call began after the last
\* reset_container and has returned.
Returned == {t \in Threads : /\ container_calls[t].pc = "done"
                             /\ ~container_calls[t].reset_seen}

\* C27: between two reset_container calls every get_container call returns
\* one and the same Container, and create_container runs at most once, also
\* when the first calls are made by several threads at the same time; the
\* Container returned after a reset_container is one built after it.
C27_OneContainerBetweenResets ==
    /\ container.created <= 1
    /\ \A t \in Returned :
          /\ container_calls[t].returned[1] # None
          /\ container_calls[t].returned[1][1] > container.floor
          /\ \A u \in Returned :
                container_calls[u].returned = container_calls[t].returned

====
